---- MODULE Spec2Model ----
(***************************************************************************)
(* Admin dashboard statistics and the public dashboard counts of the       *)
(* QafzhSolar admin backend: controllers/adminStatsController.js,          *)
(* controllers/dashboardController.js and routes/adminStatsRoute.js.       *)
(*                                                                         *)
(* The database is five collections of documents.  A request runs through  *)
(* its route (the two middlewares of the admin routes, then the            *)
(* controller); the controller is a sequence of awaited queries, each one  *)
(* an atomic read of the database, followed by one response.               *)
(***************************************************************************)
EXTENDS Integers, Sequences, FiniteSets, TLC

(***************************************************************************)
(* JavaScript values.  A number is a decimal fraction n/d (d a power of    *)
(* ten), NaN, or an infinity; a query-string parameter is undefined or a   *)
(* string, kept as its sequence of characters.                             *)
(***************************************************************************)
Num(n, d) == [k |-> "num", n |-> n, d |-> d]
NaN == [k |-> "nan", n |-> 0, d |-> 1]
PosInf == [k |-> "inf", n |-> 1, d |-> 1]
NegInf == [k |-> "inf", n |-> -1, d |-> 1]
IntNum(i) == Num(i, 1)

IsNum(x) == x.k = "num"
IsInt(x) == x.k = "num" /\ x.n % x.d = 0
IntOf(x) == x.n \div x.d

Undefined == [t |-> "undefined", s |-> <<>>, v |-> NaN]
Str(s) == [t |-> "string", s |-> s, v |-> NaN]
NumV(i) == [t |-> "number", s |-> <<>>, v |-> IntNum(i)]

\* `x = dflt` in a destructuring pattern: the default replaces undefined only
Default(x, dflt) == IF x.t = "undefined" THEN dflt ELSE x

DigitChars == <<"0", "1", "2", "3", "4", "5", "6", "7", "8", "9">>
IsDigit(c) == \E i \in 1..10 : DigitChars[i] = c
DigitVal(c) == (CHOOSE i \in 1..10 : DigitChars[i] = c) - 1
IsSpace(c) == c = " "

RECURSIVE TrimLeft(_)
TrimLeft(s) == IF s # <<>> /\ IsSpace(Head(s)) THEN TrimLeft(Tail(s)) ELSE s

RECURSIVE TrimRight(_)
TrimRight(s) ==
    IF s # <<>> /\ IsSpace(s[Len(s)]) THEN TrimRight(SubSeq(s, 1, Len(s) - 1)) ELSE s

\* the longest prefix of s made of digits
RECURSIVE DigitPrefix(_)
DigitPrefix(s) ==
    IF s # <<>> /\ IsDigit(Head(s)) THEN <<Head(s)>> \o DigitPrefix(Tail(s)) ELSE <<>>

RECURSIVE DigitsValue(_)
DigitsValue(ds) ==
    IF ds = <<>> THEN 0
    ELSE 10 * DigitsValue(SubSeq(ds, 1, Len(ds) - 1)) + DigitVal(ds[Len(ds)])

RECURSIVE Pow10(_)
Pow10(k) == IF k = 0 THEN 1 ELSE 10 * Pow10(k - 1)

\* the decimal digits of a natural number
RECURSIVE NatChars(_)
NatChars(i) ==
    IF i < 10 THEN <<DigitChars[i + 1]>>
    ELSE NatChars(i \div 10) \o <<DigitChars[(i % 10) + 1]>>

\* String(x) of an integer-valued number (the only numbers the handlers stringify)
IntChars(i) == IF i < 0 THEN <<"-">> \o NatChars(-i) ELSE NatChars(i)

\* parseInt(string) in radix 10: leading blanks, an optional sign, then the
\* longest run of digits; whatever follows is ignored; no digit gives NaN
ParseIntChars(s) ==
    LET t == TrimLeft(s)
        neg == t # <<>> /\ Head(t) = "-"
        u == IF t # <<>> /\ Head(t) \in {"-", "+"} THEN Tail(t) ELSE t
        ds == DigitPrefix(u)
    IN  IF ds = <<>> THEN NaN
        ELSE IntNum(IF neg THEN -DigitsValue(ds) ELSE DigitsValue(ds))

\* Number(string): the whole trimmed string must be a decimal literal (an
\* optional sign, digits, an optional fraction); the empty string is 0
StringToNumber(s) ==
    LET t == TrimRight(TrimLeft(s))
        neg == t # <<>> /\ Head(t) = "-"
        u == IF t # <<>> /\ Head(t) \in {"-", "+"} THEN Tail(t) ELSE t
        ip == DigitPrefix(u)
        rest == SubSeq(u, Len(ip) + 1, Len(u))
        fp == IF rest # <<>> /\ Head(rest) = "." THEN DigitPrefix(Tail(rest)) ELSE <<>>
        wellFormed ==
            \/ ip # <<>> /\ rest = <<>>
            \/ rest # <<>> /\ Head(rest) = "." /\ Len(rest) = Len(fp) + 1
                 /\ (ip # <<>> \/ fp # <<>>)
        mag == DigitsValue(ip) * Pow10(Len(fp)) + DigitsValue(fp)
    IN  IF t = <<>> THEN IntNum(0)
        ELSE IF ~wellFormed THEN NaN
        ELSE Num(IF neg THEN -mag ELSE mag, Pow10(Len(fp)))

\* parseInt(x): the argument is converted to a string first
ParseInt(x) ==
    CASE x.t = "string" -> ParseIntChars(x.s)
      [] x.t = "number" -> IF IsInt(x.v) THEN ParseIntChars(IntChars(IntOf(x.v))) ELSE NaN
      [] OTHER -> NaN

\* ToNumber(x), the conversion the arithmetic operators apply
ToNumber(x) ==
    CASE x.t = "string" -> StringToNumber(x.s)
      [] x.t = "number" -> x.v
      [] OTHER -> NaN

Sign(i) == IF i > 0 THEN 1 ELSE IF i < 0 THEN -1 ELSE 0

\* a - b, a * b, a / b on JavaScript numbers
JsSub(a, b) ==
    CASE a.k = "nan" \/ b.k = "nan" -> NaN
      [] a.k = "inf" /\ b.k = "inf" -> IF a.n = b.n THEN NaN ELSE a
      [] a.k = "inf" -> a
      [] b.k = "inf" -> IF b.n > 0 THEN NegInf ELSE PosInf
      [] OTHER -> Num(a.n * b.d - b.n * a.d, a.d * b.d)

JsMul(a, b) ==
    CASE a.k = "nan" \/ b.k = "nan" -> NaN
      [] a.k = "inf" \/ b.k = "inf" ->
            IF Sign(a.n) * Sign(b.n) = 0 THEN NaN
            ELSE IF Sign(a.n) * Sign(b.n) > 0 THEN PosInf ELSE NegInf
      [] OTHER -> Num(a.n * b.n, a.d * b.d)

JsDiv(a, b) ==
    CASE a.k = "nan" \/ b.k = "nan" -> NaN
      [] a.k = "inf" /\ b.k = "inf" -> NaN
      [] a.k = "inf" -> IF Sign(a.n) * (IF b.n < 0 THEN -1 ELSE 1) > 0 THEN PosInf ELSE NegInf
      [] b.k = "inf" -> IntNum(0)
      [] b.n = 0 -> IF a.n = 0 THEN NaN ELSE IF a.n > 0 THEN PosInf ELSE NegInf
      [] OTHER -> IF b.n > 0 THEN Num(a.n * b.d, a.d * b.n)
                  ELSE Num(-(a.n * b.d), a.d * (-b.n))

\* ceiling of the integer quotient n/d, d > 0
CeilDiv(n, d) == -((-n) \div d)

\* Math.ceil
MathCeil(x) == IF IsNum(x) THEN IntNum(CeilDiv(x.n, x.d)) ELSE x

\* x.toFixed(1) read back by parseFloat: x rounded to the nearest tenth, a tie
\* going to the larger tenth, as a number of tenths
ToFixed1(x) ==
    IF ~IsNum(x) THEN x
    ELSE IF x.n >= 0 THEN Num((20 * x.n + x.d) \div (2 * x.d), 10)
    ELSE Num(-((20 * (-x.n) + x.d) \div (2 * x.d)), 10)

NumEq(a, b) == a.k = b.k /\ (a.k = "num" => a.n * b.d = b.n * a.d) /\ (a.k = "inf" => a.n = b.n)

(***************************************************************************)
(* The database: the five collections, each a sequence of documents in     *)
(* natural (insertion) order.                                              *)
(***************************************************************************)
Statuses == <<"pending", "approved", "rejected">>
Types == <<"Panel", "Panel", "Battery">>
Governorates == <<"Sanaa", "Aden", "Sanaa", "Taiz">>
\* ad titles in alphabetical order; a title sorts by its place in this list
Titles == <<"Batteries", "Inverters", "Panels">>

\* the start of the current day in server-local time, on the model's clock:
\* negative times are earlier days
Midnight == 0

MaxDocs == 3
Variants == {"uniform", "mixed"}

Cyc(seq, i) == seq[((i - 1) % Len(seq)) + 1]

ProductDoc(i, v, n) ==
    [_id |-> i,
     status |-> IF v = "uniform" THEN "pending" ELSE Cyc(Statuses, i),
     type |-> IF v = "uniform" THEN "Panel" ELSE Cyc(Types, i),
     governorate |-> IF v = "uniform" THEN "Sanaa" ELSE Cyc(Governorates, i),
     createdAt |-> IF v = "uniform" THEN i - 2 ELSE Cyc(<<1, -1, 1, 0>>, i),
     updatedAt |-> IF v = "uniform" THEN i - 2 ELSE Cyc(<<1, 0, -1, 0>>, i),
     price |-> IF v = "uniform" THEN 10 ELSE Cyc(<<30, 10, 20>>, i),
     userId |-> ((i - 1) % n) + 1,
     __v |-> 0]

EngineerDoc(i, v, n) ==
    [_id |-> i,
     isVerified |-> IF v = "uniform" THEN TRUE ELSE i % 2 = 1,
     isActive |-> IF v = "uniform" THEN TRUE ELSE i % 3 # 0,
     createdAt |-> IF v = "uniform" THEN i - 2 ELSE Cyc(<<0, 0, -1>>, i),
     experience |-> IF v = "uniform" THEN 5 ELSE Cyc(<<2, 7, 4>>, i),
     notes |-> "internal note",
     addedBy |-> 1,
     __v |-> 0]

ShopDoc(i, v, n) ==
    [_id |-> i,
     isVerified |-> IF v = "uniform" THEN TRUE ELSE Cyc(<<TRUE, TRUE, FALSE, FALSE>>, i),
     isActive |-> IF v = "uniform" THEN TRUE ELSE Cyc(<<TRUE, FALSE, TRUE, FALSE>>, i),
     createdAt |-> IF v = "uniform" THEN i - 2 ELSE Cyc(<<-1, 1, 1>>, i),
     rating |-> IF v = "uniform" THEN 4 ELSE Cyc(<<3, 5, 4>>, i),
     notes |-> "internal note",
     verificationDocuments |-> "licence scan",
     addedBy |-> 1,
     __v |-> 0]

AdsDoc(i, v, n) ==
    [_id |-> i,
     active |-> IF v = "uniform" THEN TRUE ELSE i % 2 = 1,
     createdAt |-> IF v = "uniform" THEN i - 2 ELSE Cyc(<<1, 1, 0>>, i),
     title |-> IF v = "uniform" THEN "Panels" ELSE Cyc(<<"Panels", "Batteries", "Inverters">>, i),
     __v |-> 0]

UserDoc(i, v, n) ==
    [_id |-> i,
     name |-> "user",
     phone |-> "777",
     email |-> "user@example.com",
     password |-> "hash",
     createdAt |-> IF v = "uniform" THEN i - 2 ELSE Cyc(<<-1, 0, 1>>, i),
     __v |-> 0]

\* the database with n documents in every collection, of variant v
MkDb(n, v) ==
    [Product |-> [i \in 1..n |-> ProductDoc(i, v, n)],
     Engineer |-> [i \in 1..n |-> EngineerDoc(i, v, n)],
     Shop |-> [i \in 1..n |-> ShopDoc(i, v, n)],
     Ads |-> [i \in 1..n |-> AdsDoc(i, v, n)],
     User |-> [i \in 1..n |-> UserDoc(i, v, n)]]

(***************************************************************************)
(* Queries.  A filter is a sequence of conditions on fields; the filter    *)
(* with no condition matches every document.                               *)
(***************************************************************************)
Eq(f, val) == [f |-> f, op |-> "eq", v |-> val]
Gte(f, val) == [f |-> f, op |-> "gte", v |-> val]

\* as Holds, with $gt in place of $gte: a value equal to the bound is left out
HoldsAfter(doc, c) ==
    /\ c.f \in DOMAIN doc
    /\ IF c.op = "eq" THEN doc[c.f] = c.v ELSE doc[c.f] > c.v

Holds(doc, c) ==
    /\ c.f \in DOMAIN doc
    /\ IF c.op = "eq" THEN doc[c.f] = c.v ELSE doc[c.f] >= c.v

Matches(doc, query) == \A i \in 1..Len(query) : Holds(doc, query[i])

\* the matching documents, in natural order
Filter(docs, query) == SelectSeq(docs, LAMBDA d : Matches(d, query))

\* as CountDocuments, answered from the collection's size as
\* estimatedDocumentCount does, whatever the filter
CountDocumentsEstimated(docs, query) == Len(docs)

\* Model.countDocuments(query)
CountDocuments(docs, query) == Len(Filter(docs, query))

\* the value a sort compares: a missing field sorts as the least value
SortKey(doc, f) ==
    IF f \notin DOMAIN doc THEN -1000
    ELSE IF f = "title" THEN CHOOSE i \in 1..Len(Titles) : Titles[i] = doc[f]
    ELSE IF f \in {"isVerified", "isActive", "active"} THEN (IF doc[f] THEN 1 ELSE 0)
    ELSE doc[f]

\* The order of documents with equal sort keys is not specified by the
\* database: it is one of the orders below, chosen by the query engine.
TieOrders == {"natural", "reverse"}

\* does document a come before document b (at natural positions pa < pb)?
Before(a, b, f, dir, tie) ==
    LET ka == SortKey(a, f)
        kb == SortKey(b, f)
    IN  IF ka = kb THEN tie = "natural"
        ELSE IF dir = 1 THEN ka < kb ELSE ka > kb

\* insert document x, which follows every document of sorted in natural order
RECURSIVE InsertSorted(_, _, _, _, _)
InsertSorted(sorted, x, f, dir, tie) ==
    IF sorted = <<>> THEN <<x>>
    ELSE IF Before(Head(sorted), x, f, dir, tie)
         THEN <<Head(sorted)>> \o InsertSorted(Tail(sorted), x, f, dir, tie)
         ELSE <<x>> \o sorted

\* .sort({f: dir})
RECURSIVE SortDocs(_, _, _, _)
SortDocs(docs, f, dir, tie) ==
    IF docs = <<>> THEN <<>>
    ELSE InsertSorted(SortDocs(SubSeq(docs, 1, Len(docs) - 1), f, dir, tie),
                      docs[Len(docs)], f, dir, tie)

Min(a, b) == IF a <= b THEN a ELSE b
Max(a, b) == IF a >= b THEN a ELSE b

\* .skip(k) for a natural number k
SkipDocs(docs, k) == SubSeq(docs, k + 1, Len(docs))

\* .limit(m) for a natural number m; a limit of 0 is no limit
LimitDocs(docs, m) == IF m = 0 THEN docs ELSE SubSeq(docs, 1, Min(m, Len(docs)))

\* the record doc without the fields of drop
Without(doc, drop) == [f \in (DOMAIN doc) \ drop |-> doc[f]]

Null == [null |-> TRUE]

\* .populate(path, fields): the reference is replaced by the referenced user
\* reduced to _id and the named fields, or by null when there is no such user
Populate(doc, path, users, fields) ==
    LET hits == {i \in 1..Len(users) : users[i]._id = doc[path]}
    IN  [doc EXCEPT ![path] =
            IF hits = {} THEN Null
            ELSE LET u == users[CHOOSE i \in hits : TRUE]
                 IN  [f \in (fields \cup {"_id"}) |-> u[f]]]

(***************************************************************************)
(* Requests.  req is the request being served: its endpoint, its query     *)
(* string, the stage of its route, the number of awaited queries its       *)
(* controller has completed, and the controller's local variables.  res    *)
(* is the response sent for it.                                            *)
(***************************************************************************)
VARIABLES db, req, res

vars == <<db, req, res>>

AdminEndpoints ==
    {"dashboard-stats", "dashboard-cards", "pending-approvals", "engineers", "shops", "ads"}
PublicEndpoints == {"counts", "simple-counts"}
ListEndpoints == {"pending-approvals", "engineers", "shops", "ads"}
Endpoints == AdminEndpoints \cup PublicEndpoints

\* query-string values the clients send
PageVals == {Undefined, Str(<<"1">>), Str(<<"2">>), Str(<<"3">>)}
LimitVals ==
    {Undefined, Str(<<"1">>), Str(<<"2">>), Str(<<"1", ".", "5">>), Str(<<"0">>),
     Str(<<"1", "0", "1">>)}
SortOrderVals == {Undefined, Str(<<"1">>), Str(<<"-", "1">>)}
FlagVals ==
    {Undefined, Str(<<"t", "r", "u", "e">>), Str(<<"f", "a", "l", "s", "e">>),
     Str(<<"T", "R", "U", "E">>), Str(<<>>)}
\* a sortBy value is a field name, kept whole in a one-element sequence: a
\* field the route documents, or another field of the documents
SortByVals(ep) ==
    {Undefined,
     Str(<<CASE ep = "pending-approvals" -> "price"
             [] ep = "engineers" -> "experience"
             [] ep = "shops" -> "rating"
             [] OTHER -> "title">>),
     Str(<<CASE ep = "pending-approvals" -> "updatedAt"
             [] ep = "engineers" -> "isVerified"
             [] ep = "shops" -> "isVerified"
             [] OTHER -> "active">>)}

NoQuery ==
    [page |-> Undefined, limit |-> Undefined, sortBy |-> Undefined,
     sortOrder |-> Undefined, verified |-> Undefined, active |-> Undefined]

\* the query strings sent to an endpoint: the parameters it documents
Queries(ep) ==
    IF ep \notin ListEndpoints THEN {NoQuery}
    ELSE {[page |-> p, limit |-> l, sortBy |-> sb, sortOrder |-> so,
           verified |-> (IF ep \in {"engineers", "shops"} THEN fl ELSE Undefined),
           active |-> (IF ep = "ads" THEN fl ELSE Undefined)] :
            p \in PageVals, l \in LimitVals, sb \in SortByVals(ep), so \in SortOrderVals,
            fl \in (IF ep = "pending-approvals" THEN {Undefined} ELSE FlagVals)}

NoLocals == <<>>
Idle == [ep |-> "none", query |-> NoQuery, stage |-> "idle", pc |-> 0, loc |-> NoLocals]
NoResponse == [code |-> 0]

\* the locals with name bound to val
Bind(loc, name, val) == [f \in (DOMAIN loc) \cup {name} |-> IF f = name THEN val ELSE loc[f]]

Init ==
    /\ \E n \in 0..MaxDocs, v \in Variants : db = MkDb(n, v)
    /\ req = Idle
    /\ res = NoResponse

\* as Arrive, with every route registered without its middlewares
ArriveUnguarded(rqs) ==
    /\ req.stage = "idle"
    /\ \E rq \in rqs :
        req' = [ep |-> rq.ep, query |-> rq.query, stage |-> "controller",
                pc |-> 0, loc |-> NoLocals]
    /\ UNCHANGED <<db, res>>

\* one of the requests of rqs (an endpoint and a query string each) arrives;
\* an admin route runs authToken first, a public route runs its controller
\* at once
Arrive(rqs) ==
    /\ req.stage = "idle"
    /\ \E rq \in rqs :
        req' = [ep |-> rq.ep, query |-> rq.query,
                stage |-> IF rq.ep \in AdminEndpoints THEN "authToken" ELSE "controller",
                pc |-> 0, loc |-> NoLocals]
    /\ UNCHANGED <<db, res>>

Requests == UNION {{[ep |-> ep, query |-> q] : q \in Queries(ep)} : ep \in Endpoints}

Receive == Arrive(Requests)

\* the response is on the wire: the handler's locals are gone
Finished(r) == [r EXCEPT !.stage = "done", !.loc = NoLocals]

\* middleware authToken: passes a request that carries a valid token on,
\* answers 401 otherwise
AuthToken ==
    /\ req.stage = "authToken"
    /\ \E validToken \in BOOLEAN :
       IF ~validToken
       THEN /\ req' = Finished(req)
            /\ res' = [code |-> 401, status |-> "error"]
       ELSE /\ req' = [req EXCEPT !.stage = "isAdmin"]
            /\ res' = res
    /\ UNCHANGED db

\* middleware isAdmin: passes an administrator's request on, answers 403
\* otherwise
IsAdmin ==
    /\ req.stage = "isAdmin"
    /\ \E admin \in BOOLEAN :
       IF ~admin
       THEN /\ req' = Finished(req)
            /\ res' = [code |-> 403, status |-> "error"]
       ELSE /\ req' = [req EXCEPT !.stage = "controller"]
            /\ res' = res
    /\ UNCHANGED db

\* the messages of the errors a query can throw: a transient cause and a
\* permanent one
Errors == {"connection lost", "malformed query"}

\* as ErrorResponse, with a generic text in place of the caught error's
\* message
ErrorResponseGeneric(msg, error) ==
    [code |-> 500, status |-> "error", message |-> msg, error |-> "Internal server error"]

\* the catch block of every controller: the handler's fixed message and the
\* message of the error caught
ErrorResponse(msg, error) ==
    [code |-> 500, status |-> "error", message |-> msg, error |-> error]

\* res.status(200).json(...) 
SuccessResponse(msg, data) ==
    [code |-> 200, status |-> "success", message |-> msg, data |-> data]

\* the connection closes; the next request can be served
Close ==
    /\ req.stage = "done"
    /\ req' = Idle
    /\ res' = NoResponse
    /\ UNCHANGED db

(***************************************************************************)
(* The count queries of the four handlers that report the headline         *)
(* figures, in the order they are awaited.                                 *)
(***************************************************************************)
CountQuery(name, coll, query) == [name |-> name, coll |-> coll, query |-> query]

StatsQueries ==
    <<CountQuery("pendingApprovals", "Product", <<Eq("status", "pending")>>),
      CountQuery("totalEngineers", "Engineer", <<>>),
      CountQuery("verifiedShops", "Shop", <<Eq("isVerified", TRUE), Eq("isActive", TRUE)>>),
      CountQuery("activeAds", "Ads", <<Eq("active", TRUE)>>),
      CountQuery("totalProducts", "Product", <<>>),
      CountQuery("approvedProducts", "Product", <<Eq("status", "approved")>>),
      CountQuery("rejectedProducts", "Product", <<Eq("status", "rejected")>>),
      CountQuery("totalShops", "Shop", <<>>),
      CountQuery("totalUsers", "User", <<>>),
      CountQuery("activeEngineers", "Engineer", <<Eq("isActive", TRUE)>>),
      CountQuery("verifiedEngineers", "Engineer", <<Eq("isVerified", TRUE)>>),
      CountQuery("recentRegistrations", "User", <<Gte("createdAt", Midnight)>>),
      CountQuery("recentProductSubmissions", "Product", <<Gte("createdAt", Midnight)>>),
      CountQuery("recentApprovals", "Product",
                 <<Eq("status", "approved"), Gte("updatedAt", Midnight)>>),
      CountQuery("recentRejections", "Product",
                 <<Eq("status", "rejected"), Gte("updatedAt", Midnight)>>)>>

CardsQueries ==
    <<CountQuery("pendingApprovals", "Product", <<Eq("status", "pending")>>),
      CountQuery("totalEngineers", "Engineer", <<>>),
      CountQuery("verifiedShops", "Shop", <<Eq("isVerified", TRUE), Eq("isActive", TRUE)>>),
      CountQuery("activeAds", "Ads", <<Eq("active", TRUE)>>)>>

\* as CountsQueries, with the shops counted on isVerified alone
CountsQueriesVerifiedOnly ==
    <<CountQuery("pendingApprovals", "Product", <<Eq("status", "pending")>>),
      CountQuery("totalEngineers", "Engineer", <<>>),
      CountQuery("verifiedShops", "Shop", <<Eq("isVerified", TRUE)>>),
      CountQuery("activeAds", "Ads", <<Eq("active", TRUE)>>)>>

CountsQueries ==
    <<CountQuery("pendingApprovals", "Product", <<Eq("status", "pending")>>),
      CountQuery("totalEngineers", "Engineer", <<>>),
      CountQuery("verifiedShops", "Shop", <<Eq("isVerified", TRUE), Eq("isActive", TRUE)>>),
      CountQuery("activeAds", "Ads", <<Eq("active", TRUE)>>)>>

SimpleCountsQueries ==
    <<CountQuery("pendingApprovals", "Product", <<Eq("status", "pending")>>),
      CountQuery("totalEngineers", "Engineer", <<>>),
      CountQuery("verifiedShops", "Shop", <<Eq("isVerified", TRUE), Eq("isActive", TRUE)>>),
      CountQuery("activeAds", "Ads", <<Eq("active", TRUE)>>)>>

Card(count, title, subtitle, icon, color) ==
    [count |-> count, title |-> title, subtitle |-> subtitle, icon |-> icon, color |-> color]

\* the four decorated cards built from the locals
DashboardCards(loc) ==
    [pendingApprovals |->
        Card(loc.pendingApprovals, "Pending Approvals", "Products awaiting approval",
             "file-cabinet", "orange"),
     totalEngineers |->
        Card(loc.totalEngineers, "Total Engineers", "Engineers registered in the system",
             "engineer", "blue"),
     verifiedShops |->
        Card(loc.verifiedShops, "Verified Shops", "Verified and certified shops",
             "storefront", "green"),
     activeAds |->
        Card(loc.activeAds, "Active Ads", "Currently active advertisements",
             "megaphone", "purple")]

\* as SimpleCountsData, with the number of users next to the four counts
SimpleCountsDataWithUsers(loc) ==
    [pendingApprovals |-> loc.pendingApprovals, totalEngineers |-> loc.totalEngineers,
     verifiedShops |-> loc.verifiedShops, activeAds |-> loc.activeAds,
     totalUsers |-> Len(db.User)]

\* the bare counts of /simple-counts
SimpleCountsData(loc) ==
    [pendingApprovals |-> loc.pendingApprovals, totalEngineers |-> loc.totalEngineers,
     verifiedShops |-> loc.verifiedShops, activeAds |-> loc.activeAds]

\* as CountStep, but a failure after the first count is answered 200 with
\* the counts obtained so far
CountStepPartial(qs, decorated, okMsg, errMsg) ==
    \E ok \in BOOLEAN, error \in Errors :
        LET k == req.pc + 1
            loc2 == Bind(req.loc, qs[k].name, CountDocuments(db[qs[k].coll], qs[k].query))
        IN  IF ~ok
            THEN /\ req' = Finished(req)
                 /\ res' = IF k = 1 THEN ErrorResponse(errMsg, error)
                           ELSE SuccessResponse(okMsg, req.loc)
            ELSE IF k < Len(qs)
            THEN /\ req' = [req EXCEPT !.pc = k, !.loc = loc2]
                 /\ res' = res
            ELSE /\ req' = Finished([req EXCEPT !.pc = k])
                 /\ res' = SuccessResponse(okMsg, IF decorated THEN DashboardCards(loc2)
                                                  ELSE SimpleCountsData(loc2))

\* One step of a handler that awaits the count queries of qs one after the
\* other and then responds with the four counts, decorated as cards or bare:
\* the next query is answered, or it fails and the catch block responds.
CountStep(qs, decorated, okMsg, errMsg) ==
    \E ok \in BOOLEAN, error \in Errors :
        LET k == req.pc + 1
            loc2 == Bind(req.loc, qs[k].name, CountDocuments(db[qs[k].coll], qs[k].query))
        IN  IF ~ok
            THEN /\ req' = Finished(req)
                 /\ res' = ErrorResponse(errMsg, error)
            ELSE IF k < Len(qs)
            THEN /\ req' = [req EXCEPT !.pc = k, !.loc = loc2]
                 /\ res' = res
            ELSE /\ req' = Finished([req EXCEPT !.pc = k])
                 /\ res' = SuccessResponse(okMsg, IF decorated THEN DashboardCards(loc2)
                                                  ELSE SimpleCountsData(loc2))

GetDashboardCards ==
    /\ req.stage = "controller" /\ req.ep = "dashboard-cards"
    /\ CountStep(CardsQueries, TRUE, "Dashboard cards data retrieved successfully",
                 "Error retrieving dashboard cards data")
    /\ UNCHANGED db

GetDashboardCounts ==
    /\ req.stage = "controller" /\ req.ep = "counts"
    /\ CountStep(CountsQueries, TRUE, "Dashboard counts retrieved successfully",
                 "Error retrieving dashboard counts")
    /\ UNCHANGED db

GetSimpleCounts ==
    /\ req.stage = "controller" /\ req.ep = "simple-counts"
    /\ CountStep(SimpleCountsQueries, FALSE, "Counts retrieved successfully",
                 "Error retrieving counts")
    /\ UNCHANGED db

(***************************************************************************)
(* The paginated lists.                                                    *)
(***************************************************************************)
TrueChars == <<"t", "r", "u", "e">>

\* as IsTrueString, but any non-empty string counts as true (the test
\* `if (verified)` in place of `verified === "true"`)
IsTrueStringTruthy(x) == x.t = "string" /\ x.s # <<>>

\* x === "true"
IsTrueString(x) == x.t = "string" /\ x.s = TrueChars

\* the destructured query parameters with their defaults
PageOf(q) == Default(q.page, NumV(1))
LimitOf(q) == Default(q.limit, NumV(10))
SortByOf(q) == Default(q.sortBy, Str(<<"createdAt">>))
\* as SortOrderOf, with ascending as the default order
SortOrderOfAscending(q) == Default(q.sortOrder, NumV(1))

SortOrderOf(q) == Default(q.sortOrder, NumV(-1))

\* as SkipOf, without the - 1: skip = page * limit
SkipOfPageTimesLimit(q) == JsMul(ToNumber(PageOf(q)), ToNumber(LimitOf(q)))

\* const skip = (page - 1) * limit
SkipOf(q) == JsMul(JsSub(ToNumber(PageOf(q)), IntNum(1)), ToNumber(LimitOf(q)))

\* the field of sort[sortBy] = parseInt(sortOrder)
SortFieldOf(q) == SortByOf(q).s[1]

PendingQuery == <<Eq("status", "pending")>>

\* as EngineersQuery, without the test for undefined: an absent parameter
\* filters as false
EngineersQueryAlways(q) == <<Eq("isVerified", IsTrueString(q.verified))>>

EngineersQuery(q) ==
    IF q.verified.t # "undefined" THEN <<Eq("isVerified", IsTrueString(q.verified))>> ELSE <<>>

\* as ShopsQuery, without isActive: true in the initial filter
ShopsQueryNoActive(q) ==
    IF q.verified.t # "undefined" THEN <<Eq("isVerified", IsTrueString(q.verified))>> ELSE <<>>

\* as ShopsQuery, with the filter replaced, not extended, when verified is
\* sent: isActive is tested only when verified is absent
ShopsQueryActiveUnlessVerified(q) ==
    IF q.verified.t # "undefined" THEN <<Eq("isVerified", IsTrueString(q.verified))>>
    ELSE <<Eq("isActive", TRUE)>>

ShopsQuery(q) ==
    <<Eq("isActive", TRUE)>> \o
    (IF q.verified.t # "undefined" THEN <<Eq("isVerified", IsTrueString(q.verified))>> ELSE <<>>)

AdsQuery(q) ==
    IF q.active.t # "undefined" THEN <<Eq("active", IsTrueString(q.active))>> ELSE <<>>

\* What the database library makes of the arguments of .sort, .skip and
\* .limit: the directions, offsets and sizes it may run the query with (none:
\* it rejects the query).  1 and -1 are the sort directions; an offset is a
\* natural number, a fractional one being cut; a size is a natural number,
\* 0 or an unreadable size standing for no limit.
SortDirs(dir) ==
    IF IsInt(dir) /\ IntOf(dir) \in {1, -1} THEN {IntOf(dir)}
    ELSE IF dir.k = "nan" \/ (IsInt(dir) /\ IntOf(dir) = 0) THEN {1}
    ELSE {}

SkipCounts(skip) == IF IsNum(skip) /\ skip.n >= 0 THEN {skip.n \div skip.d} ELSE {}

LimitCounts(limit) ==
    IF IsNum(limit) THEN {IF limit.n >= 0 THEN IntOf(limit) ELSE -IntOf(limit)}
    ELSE IF limit.k = "nan" THEN {0}
    ELSE {}

FindFailed == [ok |-> FALSE, docs |-> <<>>]

\* Model.find(query).sort(sort).skip(skip).limit(parseInt(limit)): the
\* outcomes of the awaited query, the failure of the query among them
FindOutcomes(docs, query, q) ==
    {FindFailed} \cup
    {[ok |-> TRUE,
      docs |-> LimitDocs(SkipDocs(SortDocs(Filter(docs, query), SortFieldOf(q), dir, tie), sk), lim)] :
        dir \in SortDirs(ParseInt(SortOrderOf(q))), tie \in TieOrders,
        sk \in SkipCounts(SkipOf(q)), lim \in LimitCounts(ParseInt(LimitOf(q)))}

\* as Pagination, with currentPage brought back to the last page when the
\* requested page lies beyond it
PaginationClamped(q, total) ==
    LET pages == MathCeil(JsDiv(IntNum(total), ToNumber(LimitOf(q))))
        page == ParseInt(PageOf(q))
    IN  [currentPage |-> IF IsInt(page) /\ IsInt(pages) /\ IntOf(page) > IntOf(pages)
                         THEN pages ELSE page,
         totalPages |-> pages,
         totalItems |-> total,
         itemsPerPage |-> ParseInt(LimitOf(q))]

\* the pagination block of a list response
Pagination(q, total) ==
    [currentPage |-> ParseInt(PageOf(q)),
     totalPages |-> MathCeil(JsDiv(IntNum(total), ToNumber(LimitOf(q)))),
     totalItems |-> total,
     itemsPerPage |-> ParseInt(LimitOf(q))]

\* .populate("userId", "name phone email").select("-__v")
ShapeProduct(doc) ==
    Without(Populate(doc, "userId", db.User, {"name", "phone", "email"}), {"__v"})

\* .populate("addedBy", "name").select("-notes -__v")
ShapeEngineer(doc) == Without(Populate(doc, "addedBy", db.User, {"name"}), {"notes", "__v"})

\* as ShapeShop, with verificationDocuments missing from the select string
ShapeShopWithDocuments(doc) ==
    Without(Populate(doc, "addedBy", db.User, {"name"}), {"notes", "__v"})

\* .populate("addedBy", "name").select("-notes -verificationDocuments -__v")
ShapeShop(doc) ==
    Without(Populate(doc, "addedBy", db.User, {"name"}),
            {"notes", "verificationDocuments", "__v"})

\* .select("-__v")
ShapeAd(doc) == Without(doc, {"__v"})

ProductsData(items, pg) == [products |-> items, pagination |-> pg]
EngineersData(items, pg) == [engineers |-> items, pagination |-> pg]
ShopsData(items, pg) == [shops |-> items, pagination |-> pg]
AdsData(items, pg) == [ads |-> items, pagination |-> pg]

\* the projection of the handler of endpoint ep
Shape(ep, doc) ==
    CASE ep = "pending-approvals" -> ShapeProduct(doc)
      [] ep = "engineers" -> ShapeEngineer(doc)
      [] ep = "shops" -> ShapeShop(doc)
      [] OTHER -> ShapeAd(doc)

\* the data of the response of the handler of endpoint ep
ListData(ep, items, pg) ==
    CASE ep = "pending-approvals" -> ProductsData(items, pg)
      [] ep = "engineers" -> EngineersData(items, pg)
      [] ep = "shops" -> ShopsData(items, pg)
      [] OTHER -> AdsData(items, pg)

\* as ListStep, with the found documents kept in a variable of the module
\* that the requests in progress share: the response lists what the other
\* request in progress has found, when it has
ListStepSharedItems(coll, query, okMsg, errMsg) ==
    IF req.pc = 0
    THEN \E out \in FindOutcomes(db[coll], query, req.query), error \in Errors :
            IF ~out.ok
            THEN /\ req' = Finished(req)
                 /\ res' = ErrorResponse(errMsg, error)
            ELSE /\ req' = [req EXCEPT !.pc = 1,
                               !.loc = Bind(req.loc, "items",
                                            [i \in 1..Len(out.docs) |-> Shape(req.ep, out.docs[i])])]
                 /\ res' = res
    ELSE \E ok \in BOOLEAN, error \in Errors :
            IF ~ok
            THEN /\ req' = Finished(req)
                 /\ res' = ErrorResponse(errMsg, error)
            ELSE /\ req' = Finished([req EXCEPT !.pc = 2])
                 /\ res' = SuccessResponse(okMsg,
                                ListData(req.ep,
                                         IF "parked" \in DOMAIN req
                                              /\ "items" \in DOMAIN req.parked.req.loc
                                         THEN req.parked.req.loc.items ELSE req.loc.items,
                                         Pagination(req.query, CountDocuments(db[coll], query))))

\* One step of a list handler: the find query, then the count query and the
\* response; either query may fail, and the catch block responds.
ListStep(coll, query, okMsg, errMsg) ==
    IF req.pc = 0
    THEN \E out \in FindOutcomes(db[coll], query, req.query), error \in Errors :
            IF ~out.ok
            THEN /\ req' = Finished(req)
                 /\ res' = ErrorResponse(errMsg, error)
            ELSE /\ req' = [req EXCEPT !.pc = 1,
                               !.loc = Bind(req.loc, "items",
                                            [i \in 1..Len(out.docs) |-> Shape(req.ep, out.docs[i])])]
                 /\ res' = res
    ELSE \E ok \in BOOLEAN, error \in Errors :
            IF ~ok
            THEN /\ req' = Finished(req)
                 /\ res' = ErrorResponse(errMsg, error)
            ELSE /\ req' = Finished([req EXCEPT !.pc = 2])
                 /\ res' = SuccessResponse(okMsg,
                                ListData(req.ep, req.loc.items,
                                         Pagination(req.query, CountDocuments(db[coll], query))))

GetPendingApprovals ==
    /\ req.stage = "controller" /\ req.ep = "pending-approvals"
    /\ ListStep("Product", PendingQuery,
                "Pending approvals retrieved successfully",
                "Error retrieving pending approvals")
    /\ UNCHANGED db

GetEngineersList ==
    /\ req.stage = "controller" /\ req.ep = "engineers"
    /\ ListStep("Engineer", EngineersQuery(req.query),
                "Engineers list retrieved successfully", "Error retrieving engineers list")
    /\ UNCHANGED db

GetShopsList ==
    /\ req.stage = "controller" /\ req.ep = "shops"
    /\ ListStep("Shop", ShopsQuery(req.query),
                "Shops list retrieved successfully", "Error retrieving shops list")
    /\ UNCHANGED db

\* as GetAdsList, but every step marks the ads as read by bumping their
\* version
GetAdsListTouching ==
    /\ req.stage = "controller" /\ req.ep = "ads"
    /\ ListStep("Ads", AdsQuery(req.query),
                "Ads list retrieved successfully", "Error retrieving ads list")
    /\ db' = [db EXCEPT !.Ads = [i \in 1..Len(db.Ads) |-> [db.Ads[i] EXCEPT !.__v = 1]]]

GetAdsList ==
    /\ req.stage = "controller" /\ req.ep = "ads"
    /\ ListStep("Ads", AdsQuery(req.query),
                "Ads list retrieved successfully", "Error retrieving ads list")
    /\ UNCHANGED db

(***************************************************************************)
(* The composite dashboard: fifteen counts, the two rates, the category    *)
(* and the regional aggregation, then the response.                        *)
(***************************************************************************)
\* the distinct values of field f, in the order of their first document
GroupKeys(docs, f) ==
    LET firsts == SelectSeq([i \in 1..Len(docs) |-> i],
                            LAMBDA i : \A j \in 1..(i - 1) : docs[j][f] # docs[i][f])
    IN  [k \in 1..Len(firsts) |-> docs[firsts[k]][f]]

\* $sum of 1 over the documents of the group with the given status
StatusCount(docs, f, key, status) == CountDocuments(docs, <<Eq(f, key), Eq("status", status)>>)

\* the $group and $project stages of the category pipeline, for one type
CategoryRow(docs, type) ==
    LET count == CountDocuments(docs, <<Eq("type", type)>>)
        approved == StatusCount(docs, "type", type, "approved")
    IN  [_id |-> type,
         category |-> type,
         count |-> count,
         pending |-> StatusCount(docs, "type", type, "pending"),
         approved |-> approved,
         rejected |-> StatusCount(docs, "type", type, "rejected"),
         approvalRate |-> JsMul(JsDiv(IntNum(approved), IntNum(Max(count, 1))), IntNum(100))]

\* as CategoryStats, sorted by count ascending
CategoryStatsAscending(docs, tie) ==
    LET keys == GroupKeys(docs, "type")
    IN  SortDocs([i \in 1..Len(keys) |-> CategoryRow(docs, keys[i])], "count", 1, tie)

\* Product.aggregate([$group by type, $project, $sort by count descending]);
\* groups of equal count come in an order the database chooses
CategoryStats(docs, tie) ==
    LET keys == GroupKeys(docs, "type")
    IN  SortDocs([i \in 1..Len(keys) |-> CategoryRow(docs, keys[i])], "count", -1, tie)

RegionLimit == 10

\* the $group stage of the regional pipeline, for one governorate
RegionRow(docs, gov) ==
    [_id |-> gov,
     products |-> CountDocuments(docs, <<Eq("governorate", gov)>>),
     pending |-> StatusCount(docs, "governorate", gov, "pending")]

\* as RegionalStats, without the $limit stage
RegionalStatsUnlimited(docs, tie) ==
    LET keys == GroupKeys(docs, "governorate")
    IN  SortDocs([i \in 1..Len(keys) |-> RegionRow(docs, keys[i])], "products", -1, tie)

\* Product.aggregate([$group by governorate, $sort by products descending,
\* $limit 10])
RegionalStats(docs, tie) ==
    LET keys == GroupKeys(docs, "governorate")
    IN  LimitDocs(SortDocs([i \in 1..Len(keys) |-> RegionRow(docs, keys[i])], "products", -1, tie),
                  RegionLimit)

\* as Rate, without the guard against an empty collection
RateUnguarded(part, total) == ToFixed1(JsMul(JsDiv(IntNum(part), IntNum(total)), IntNum(100)))

\* as Rate, rounded up to a whole percent (Math.ceil in place of toFixed(1))
RateWholePercent(part, total) ==
    IF total > 0 THEN MathCeil(JsMul(JsDiv(IntNum(part), IntNum(total)), IntNum(100)))
    ELSE IntNum(0)

\* total > 0 ? ((part / total) * 100).toFixed(1) : 0
Rate(part, total) ==
    IF total > 0 THEN ToFixed1(JsMul(JsDiv(IntNum(part), IntNum(total)), IntNum(100)))
    ELSE IntNum(0)

\* performance.approvalRates.byCategory: the reduce over categoryStats
ByCategory(categoryStats) ==
    [c \in {categoryStats[i].category : i \in 1..Len(categoryStats)} |->
        ToFixed1((categoryStats[CHOOSE i \in 1..Len(categoryStats) :
                                    /\ categoryStats[i].category = c
                                    /\ \A j \in (i + 1)..Len(categoryStats) :
                                          categoryStats[j].category # c]).approvalRate)]

\* performance.popularCategories: the map over categoryStats
PopularCategories(categoryStats, totalProducts) ==
    [i \in 1..Len(categoryStats) |->
        [category |-> categoryStats[i].category,
         count |-> categoryStats[i].count,
         percentage |-> ToFixed1(JsMul(JsDiv(IntNum(categoryStats[i].count),
                                             IntNum(totalProducts)), IntNum(100)))]]

\* regional.byGovernorate
ByGovernorate(regionalStats) ==
    [i \in 1..Len(regionalStats) |->
        [governorate |-> regionalStats[i]._id,
         products |-> regionalStats[i].products,
         pending |-> regionalStats[i].pending]]

\* as TopRegions, with the thresholds of activity met by 50 and by 20
\* products themselves
TopRegionsAtLeast(regionalStats) ==
    LET top == SubSeq(regionalStats, 1, Min(5, Len(regionalStats)))
    IN  [i \in 1..Len(top) |->
            [name |-> top[i]._id,
             activity |-> IF top[i].products >= 50 THEN "high"
                          ELSE IF top[i].products >= 20 THEN "medium" ELSE "low",
             growth |-> Num(225, 10)]]

\* regional.topRegions
TopRegions(regionalStats) ==
    LET top == SubSeq(regionalStats, 1, Min(5, Len(regionalStats)))
    IN  [i \in 1..Len(top) |->
            [name |-> top[i]._id,
             activity |-> IF top[i].products > 50 THEN "high"
                          ELSE IF top[i].products > 20 THEN "medium" ELSE "low",
             growth |-> Num(225, 10)]]

\* the data of the dashboard-stats response (lastUpdated and generatedAt, two
\* readings of the clock, are left out)
StatsData(loc, regionalStats) ==
    [dashboardCards |-> DashboardCards(loc),
     overview |->
        [totalUsers |-> [count |-> loc.totalUsers,
                         growth |-> [percentage |-> Num(155, 10), period |-> "month"]],
         totalProducts |-> [count |-> loc.totalProducts, pending |-> loc.pendingApprovals,
                            approved |-> loc.approvedProducts,
                            rejected |-> loc.rejectedProducts],
         totalShops |-> [count |-> loc.totalShops, verified |-> loc.verifiedShops],
         totalEngineers |-> [count |-> loc.totalEngineers, verified |-> loc.verifiedEngineers,
                             available |-> loc.activeEngineers]],
     activity |->
        [recentRegistrations |-> [today |-> loc.recentRegistrations, week |-> 85, month |-> 340],
         recentSubmissions |->
            [products |-> [today |-> loc.recentProductSubmissions, week |-> 56,
                           pendingApproval |-> loc.pendingApprovals]],
         adminActions |-> [approvalsToday |-> loc.recentApprovals,
                           rejectionsToday |-> loc.recentRejections,
                           averageResponseTime |-> "4.2 hours"]],
     performance |->
        [approvalRates |-> [overall |-> loc.approvalRate,
                            byCategory |-> ByCategory(loc.categoryStats)],
         popularCategories |-> PopularCategories(loc.categoryStats, loc.totalProducts),
         qualityMetrics |-> [averageQualityScore |-> Num(78, 10),
                             completeSubmissions |-> Num(925, 10)]],
     regional |-> [byGovernorate |-> ByGovernorate(regionalStats),
                   topRegions |-> TopRegions(regionalStats)],
     systemHealth |->
        [database |-> [status |-> "healthy", responseTime |-> "12ms", connections |-> 15],
         apiPerformance |-> [averageResponseTime |-> "125ms", errorRate |-> Num(2, 100),
                             requestsPerMinute |-> 45]]]

\* the locals after the last count: the two rates are computed before the
\* category aggregation is awaited
WithRates(loc) ==
    Bind(Bind(loc, "approvalRate", Rate(loc.approvedProducts, loc.totalProducts)),
         "rejectionRate", Rate(loc.rejectedProducts, loc.totalProducts))

StatsError(error) == ErrorResponse("Error retrieving statistics", error)

\* One step of getAdminDashboardStats: the next awaited query is answered, or
\* it fails and the catch block responds.
GetAdminDashboardStats ==
    /\ req.stage = "controller" /\ req.ep = "dashboard-stats"
    /\ LET k == req.pc + 1
       IN  \E ok \in BOOLEAN, tie \in TieOrders, error \in Errors :
            IF ~ok
            THEN /\ req' = Finished(req)
                 /\ res' = StatsError(error)
            ELSE IF k <= Len(StatsQueries)
            THEN LET qd == StatsQueries[k]
                     loc2 == Bind(req.loc, qd.name, CountDocuments(db[qd.coll], qd.query))
                 IN  /\ req' = [req EXCEPT !.pc = k,
                                    !.loc = IF k = Len(StatsQueries) THEN WithRates(loc2)
                                            ELSE loc2]
                     /\ res' = res
            ELSE IF k = Len(StatsQueries) + 1
            THEN /\ req' = [req EXCEPT !.pc = k,
                               !.loc = Bind(req.loc, "categoryStats",
                                            CategoryStats(db.Product, tie))]
                 /\ res' = res
            ELSE /\ req' = Finished([req EXCEPT !.pc = k])
                 /\ res' = SuccessResponse("Dashboard statistics retrieved successfully",
                                           StatsData(req.loc, RegionalStats(db.Product, tie)))
    /\ UNCHANGED db

Next ==
    \/ Receive
    \/ AuthToken
    \/ IsAdmin
    \/ GetAdminDashboardStats
    \/ GetDashboardCards
    \/ GetPendingApprovals
    \/ GetEngineersList
    \/ GetShopsList
    \/ GetAdsList
    \/ GetDashboardCounts
    \/ GetSimpleCounts
    \/ Close

Spec == Init /\ [][Next]_vars

(***************************************************************************)
(* Larger collections, for the list endpoints only: up to MaxPageDocs      *)
(* documents per collection, so that a page of the default size is full.   *)
(***************************************************************************)
MaxPageDocs == 15

PageLimitVals == {Undefined, Str(<<"2">>)}
PageFlagVals == {Undefined, Str(TrueChars)}

PageQueries(ep) ==
    {[page |-> p, limit |-> l, sortBy |-> sb, sortOrder |-> so,
      verified |-> (IF ep \in {"engineers", "shops"} THEN fl ELSE Undefined),
      active |-> (IF ep = "ads" THEN fl ELSE Undefined)] :
        p \in PageVals, l \in PageLimitVals, sb \in SortByVals(ep), so \in SortOrderVals,
        fl \in (IF ep = "pending-approvals" THEN {Undefined} ELSE PageFlagVals)}

InitPages ==
    /\ \E n \in 0..MaxPageDocs, v \in Variants : db = MkDb(n, v)
    /\ req = Idle
    /\ res = NoResponse

PageRequests == UNION {{[ep |-> ep, query |-> q] : q \in PageQueries(ep)} : ep \in ListEndpoints}

ReceiveList == Arrive(PageRequests)

NextPages ==
    \/ ReceiveList
    \/ AuthToken
    \/ IsAdmin
    \/ GetPendingApprovals
    \/ GetEngineersList
    \/ GetShopsList
    \/ GetAdsList
    \/ Close

SpecPages == InitPages /\ [][NextPages]_vars

(***************************************************************************)
(* Product collections of every composition of statuses up to MaxProducts  *)
(* products, for the figures of the composite dashboard.                   *)
(***************************************************************************)
MaxProducts == 16

\* p pending, then a approved, then r rejected products
MkProducts(p, a, r) ==
    [i \in 1..(p + a + r) |->
        [ProductDoc(i, "mixed", 1) EXCEPT
            !.status = IF i <= p THEN "pending" ELSE IF i <= p + a THEN "approved"
                       ELSE "rejected"]]

InitStats ==
    /\ \E p \in 0..MaxProducts, a \in 0..MaxProducts, r \in 0..MaxProducts :
        /\ p + a + r <= MaxProducts
        /\ db = [MkDb(1, "mixed") EXCEPT !.Product = MkProducts(p, a, r)]
    /\ req = Idle
    /\ res = NoResponse

ReceiveStats == Arrive({[ep |-> "dashboard-stats", query |-> NoQuery]})

NextStats ==
    \/ ReceiveStats
    \/ AuthToken
    \/ IsAdmin
    \/ GetAdminDashboardStats
    \/ Close

SpecStats == InitStats /\ [][NextStats]_vars

(***************************************************************************)
(* Products spread over more governorates than the regional breakdown      *)
(* keeps: up to MaxRegionDocs products in the governorates of RegionNames. *)
(***************************************************************************)
RegionNames ==
    <<"Sanaa", "Aden", "Taiz", "Hodeidah", "Ibb", "Dhamar", "Hadramaut", "Marib", "Hajjah",
      "Saada", "Lahij", "Abyan">>

MaxRegionDocs == 18

RegionVariants == {"even", "late"}

\* the governorate of the i-th product: one governorate after the other, or
\* ("late") one product in each governorate and the rest in the three
\* governorates that come last
RegionOf(i, v) ==
    IF v = "even" \/ i <= Len(RegionNames) THEN Cyc(RegionNames, i)
    ELSE RegionNames[Len(RegionNames) - ((i - 1) % 3)]

MkRegionProducts(n, v) ==
    [i \in 1..n |-> [ProductDoc(i, "mixed", 1) EXCEPT !.governorate = RegionOf(i, v)]]

InitRegions ==
    /\ \E n \in 0..MaxRegionDocs, v \in RegionVariants :
        db = [MkDb(1, "mixed") EXCEPT !.Product = MkRegionProducts(n, v)]
    /\ req = Idle
    /\ res = NoResponse

SpecRegions == InitRegions /\ [][NextStats]_vars

(***************************************************************************)
(* Governorates with product counts on both sides of the two thresholds of *)
(* activity: the first three governorates of RegionNames hold a number of  *)
(* products of ActivityCounts each, and SmallRegions further governorates  *)
(* hold one product each.                                                  *)
(***************************************************************************)
ActivityCounts == {0, 20, 21, 50, 51}

SmallRegions == {0, 4}

MkActivityProducts(c1, c2, c3, k) ==
    [i \in 1..(c1 + c2 + c3 + k) |->
        [ProductDoc(i, "mixed", 1) EXCEPT
            !.governorate = IF i <= c1 THEN RegionNames[1]
                            ELSE IF i <= c1 + c2 THEN RegionNames[2]
                            ELSE IF i <= c1 + c2 + c3 THEN RegionNames[3]
                            ELSE RegionNames[3 + i - (c1 + c2 + c3)]]]

InitActivity ==
    /\ \E c1, c2, c3 \in ActivityCounts, k \in SmallRegions :
        db = [MkDb(1, "mixed") EXCEPT !.Product = MkActivityProducts(c1, c2, c3, k)]
    /\ req = Idle
    /\ res = NoResponse

SpecActivity == InitActivity /\ [][NextStats]_vars

(***************************************************************************)
(* A client that sends a list request a second time, unchanged, after the  *)
(* first was answered 200; req.first keeps the documents of the first      *)
(* answer for the time of the second request.                              *)
(***************************************************************************)
RepeatQueries(ep) ==
    {[page |-> p, limit |-> l, sortBy |-> sb, sortOrder |-> Undefined,
      verified |-> Undefined, active |-> Undefined] :
        p \in {Undefined, Str(<<"2">>)}, l \in {Undefined, Str(<<"1">>)}, sb \in SortByVals(ep)}

RepeatRequests ==
    UNION {{[ep |-> ep, query |-> q] : q \in RepeatQueries(ep)} : ep \in ListEndpoints}

ReceiveFirst == Arrive(RepeatRequests)

\* the same request again, right after its 200 response
Repeat ==
    /\ req.stage = "done" /\ res.code = 200
    /\ "first" \notin DOMAIN req
    /\ req' = [ep |-> req.ep, query |-> req.query, stage |-> "authToken", pc |-> 0,
               loc |-> NoLocals,
               first |-> CASE req.ep = "pending-approvals" -> res.data.products
                           [] req.ep = "engineers" -> res.data.engineers
                           [] req.ep = "shops" -> res.data.shops
                           [] OTHER -> res.data.ads]
    /\ res' = NoResponse
    /\ UNCHANGED db

NextRepeat ==
    \/ ReceiveFirst
    \/ AuthToken
    \/ IsAdmin
    \/ GetPendingApprovals
    \/ GetEngineersList
    \/ GetShopsList
    \/ GetAdsList
    \/ Repeat
    \/ Close

SpecRepeat == Init /\ [][NextRepeat]_vars

(***************************************************************************)
(* Other clients of the database write products while requests are served: *)
(* a write is atomic and can fall before, between or after the awaited     *)
(* queries of a handler.  The collection holds at most MaxWriteDocs        *)
(* products.                                                               *)
(***************************************************************************)
MaxWriteDocs == 2

WriteStatuses == {"pending", "approved", "rejected"}

\* a product is submitted (or arrives already moderated)
InsertProduct ==
    /\ Len(db.Product) < MaxWriteDocs
    /\ \E st \in WriteStatuses :
        db' = [db EXCEPT !.Product =
                Append(@, [ProductDoc(Len(@) + 1, "mixed", 1) EXCEPT !.status = st])]
    /\ UNCHANGED <<req, res>>

\* the newest product is removed
DeleteProduct ==
    /\ Len(db.Product) > 0
    /\ db' = [db EXCEPT !.Product = SubSeq(@, 1, Len(@) - 1)]
    /\ UNCHANGED <<req, res>>

\* a product is approved, rejected or put back to pending
ChangeStatus ==
    /\ \E i \in 1..Len(db.Product), st \in WriteStatuses :
        /\ db.Product[i].status # st
        /\ db' = [db EXCEPT !.Product[i].status = st]
    /\ UNCHANGED <<req, res>>

WriteQueries ==
    {[NoQuery EXCEPT !.limit = l] : l \in {Undefined, Str(<<"1">>)}}

WriteRequests == {[ep |-> "pending-approvals", query |-> q] : q \in WriteQueries}

ReceiveAmongWrites == Arrive(WriteRequests)

InitWrites ==
    /\ db = [MkDb(1, "mixed") EXCEPT !.Product = <<>>]
    /\ req = Idle
    /\ res = NoResponse

NextWrites ==
    \/ ReceiveAmongWrites
    \/ AuthToken
    \/ IsAdmin
    \/ GetPendingApprovals
    \/ InsertProduct
    \/ DeleteProduct
    \/ ChangeStatus
    \/ Close

SpecWrites == InitWrites /\ [][NextWrites]_vars

\* The same for the two handlers that only count, with the writes that move
\* the product figures: an approved product is added, or the newest product
\* is removed.
InsertApproved ==
    /\ Len(db.Product) < MaxWriteDocs
    /\ db' = [db EXCEPT !.Product =
                Append(@, [ProductDoc(Len(@) + 1, "mixed", 1) EXCEPT !.status = "approved"])]
    /\ UNCHANGED <<req, res>>

CountRequests ==
    {[ep |-> "dashboard-stats", query |-> NoQuery], [ep |-> "simple-counts", query |-> NoQuery]}

ReceiveCounts == Arrive(CountRequests)

NextCountsAmongWrites ==
    \/ ReceiveCounts
    \/ AuthToken
    \/ IsAdmin
    \/ GetAdminDashboardStats
    \/ GetSimpleCounts
    \/ InsertApproved
    \/ DeleteProduct
    \/ Close

SpecCountsAmongWrites == InitWrites /\ [][NextCountsAmongWrites]_vars

(***************************************************************************)
(* Two requests in progress at once.  The event loop runs one handler at a *)
(* time and can turn to the other request at every await: req is the       *)
(* request whose handler runs, req.parked the other request with its       *)
(* response so far.                                                        *)
(***************************************************************************)
PairRequests ==
    {[ep |-> "dashboard-stats", query |-> NoQuery], [ep |-> "simple-counts", query |-> NoQuery]}
    \cup {[ep |-> "engineers", query |-> [NoQuery EXCEPT !.page = p, !.limit = Str(<<"1">>)]] :
            p \in {Str(<<"1">>), Str(<<"2">>)}}

\* the request rq as it arrives
Arrived(rq) ==
    [ep |-> rq.ep, query |-> rq.query,
     stage |-> IF rq.ep \in AdminEndpoints THEN "authToken" ELSE "controller",
     pc |-> 0, loc |-> NoLocals]

\* two requests arrive one right after the other
ReceivePair ==
    /\ req.stage = "idle"
    /\ \E r1 \in PairRequests, r2 \in PairRequests :
        req' = [f \in DOMAIN Arrived(r1) \cup {"parked"} |->
                    IF f = "parked" THEN [req |-> Arrived(r2), res |-> NoResponse]
                    ELSE Arrived(r1)[f]]
    /\ UNCHANGED <<db, res>>

\* the handler that runs is at an await (or has returned): the event loop
\* turns to the other request
Switch ==
    /\ "parked" \in DOMAIN req
    /\ req.parked.req.stage # "done"
    /\ req' = [f \in DOMAIN req |->
                    IF f = "parked"
                    THEN [req |-> [g \in (DOMAIN req) \ {"parked"} |-> req[g]], res |-> res]
                    ELSE req.parked.req[f]]
    /\ res' = req.parked.res
    /\ UNCHANGED db

\* both connections close
ClosePair ==
    /\ "parked" \in DOMAIN req
    /\ req.stage = "done" /\ req.parked.req.stage = "done"
    /\ req' = Idle
    /\ res' = NoResponse
    /\ UNCHANGED db

NextPair ==
    \/ ReceivePair
    \/ Switch
    \/ AuthToken
    \/ IsAdmin
    \/ GetAdminDashboardStats
    \/ GetEngineersList
    \/ GetSimpleCounts
    \/ ClosePair

SpecPair == Init /\ [][NextPair]_vars

(***************************************************************************)
(* A client that reads a list page after page, from page 1 to the last     *)
(* page the responses announce; req.seen keeps the identifiers of the      *)
(* documents of the pages read before.                                     *)
(***************************************************************************)
SweepQueries(ep) ==
    {[NoQuery EXCEPT !.page = Str(<<"1">>), !.limit = l, !.sortBy = sb] :
        l \in {Str(<<"1">>), Str(<<"2">>)}, sb \in SortByVals(ep)}

\* the identifiers of the documents of a list
IdsOf(items) == [i \in 1..Len(items) |-> items[i]._id]

\* the request for page 1
ReceiveSweep ==
    /\ req.stage = "idle"
    /\ \E ep \in ListEndpoints : \E q \in SweepQueries(ep) :
        req' = [ep |-> ep, query |-> q, stage |-> "authToken", pc |-> 0, loc |-> NoLocals,
                seen |-> <<>>]
    /\ UNCHANGED <<db, res>>

\* the request for the next page, the same otherwise, after a 200 response
\* that announces more pages
NextPage ==
    /\ req.stage = "done" /\ res.code = 200
    /\ "seen" \in DOMAIN req
    /\ IsInt(res.data.pagination.currentPage) /\ IsInt(res.data.pagination.totalPages)
    /\ IntOf(res.data.pagination.currentPage) < IntOf(res.data.pagination.totalPages)
    /\ req' = [ep |-> req.ep,
               query |-> [req.query EXCEPT
                            !.page = Str(IntChars(IntOf(res.data.pagination.currentPage) + 1))],
               stage |-> "authToken", pc |-> 0, loc |-> NoLocals,
               seen |-> req.seen \o
                        IdsOf(CASE req.ep = "pending-approvals" -> res.data.products
                                [] req.ep = "engineers" -> res.data.engineers
                                [] req.ep = "shops" -> res.data.shops
                                [] OTHER -> res.data.ads)]
    /\ res' = NoResponse
    /\ UNCHANGED db

NextSweep ==
    \/ ReceiveSweep
    \/ AuthToken
    \/ IsAdmin
    \/ GetPendingApprovals
    \/ GetEngineersList
    \/ GetShopsList
    \/ GetAdsList
    \/ NextPage
    \/ Close

SpecSweep == Init /\ [][NextSweep]_vars

(***************************************************************************)
(* Properties.                                                             *)
(***************************************************************************)
Succeeded == req.stage = "done" /\ res.code = 200
ListSucceeded == Succeeded /\ req.ep \in ListEndpoints

\* the documents and the pagination block of a successful list response
ListItems ==
    CASE req.ep = "pending-approvals" -> res.data.products
      [] req.ep = "engineers" -> res.data.engineers
      [] req.ep = "shops" -> res.data.shops
      [] OTHER -> res.data.ads
Pg == res.data.pagination

\* the collection a list endpoint reads, and the filter its handler builds
ListCollection(ep) ==
    CASE ep = "pending-approvals" -> db.Product
      [] ep = "engineers" -> db.Engineer
      [] ep = "shops" -> db.Shop
      [] OTHER -> db.Ads
ListQuery(ep, q) ==
    CASE ep = "pending-approvals" -> PendingQuery
      [] ep = "engineers" -> EngineersQuery(q)
      [] ep = "shops" -> ShopsQuery(q)
      [] OTHER -> AdsQuery(q)

\* the parameter is a decimal integer >= 1 (or the numeric default)
PlainPositive(x) == IsInt(ToNumber(x)) /\ IntOf(ToNumber(x)) >= 1 /\ ParseInt(x) = ToNumber(x)
PlainPaging(q) == PlainPositive(PageOf(q)) /\ PlainPositive(LimitOf(q))

\* the requested direction: 1 ascending, -1 (the default) descending
RequestedDir(q) == IF q.sortOrder = Str(<<"1">>) THEN 1 ELSE -1

\* items are the documents at positions skip+1 .. min(skip+size, total) of
\* docs arranged by field f in direction dir: as many as that, each one a
\* document of docs, no document twice, and the i-th item has fewer than
\* skip+i documents strictly ahead of it and at least skip+i not behind it.
Ahead(a, b, f, dir) ==
    IF dir = 1 THEN SortKey(a, f) < SortKey(b, f) ELSE SortKey(a, f) > SortKey(b, f)
IsPageOf(items, docs, f, dir, skip, size) ==
    /\ Len(items) = Max(0, Min(skip + size, Len(docs)) - skip)
    /\ \A i \in 1..Len(items) : \E j \in 1..Len(docs) : docs[j]._id = items[i]._id
    /\ \A i, j \in 1..Len(items) : i # j => items[i]._id # items[j]._id
    /\ \A i \in 1..Len(items) :
        /\ Cardinality({j \in 1..Len(docs) : Ahead(docs[j], items[i], f, dir)}) < skip + i
        /\ Cardinality({j \in 1..Len(docs) : ~Ahead(items[i], docs[j], f, dir)}) >= skip + i

\* the count the aggregator reports under the given name on this database
AggregatorCount(name) ==
    LET qd == StatsQueries[CHOOSE k \in 1..Len(StatsQueries) : StatsQueries[k].name = name]
    IN  CountDocuments(db[qd.coll], qd.query)

\* C1: no step of any request, whether it ends in success or in error,
\* changes a collection: the database stays what it was.
C1_ReadOnly == [][db' = db]_vars

C1_Witness == Succeeded /\ req.ep = "dashboard-stats" /\ Len(db.Product) > 0

\* C2: the total a list endpoint reports equals the aggregator's count for
\* the equivalent filter on the same database, whatever the page, limit and
\* sort: pending products, all engineers (verified omitted), verified active
\* shops (verified=true), active ads (active=true); and the dashboard cards
\* carry those counts.
C2_CountsAgree ==
    /\ ListSucceeded /\ req.ep = "pending-approvals"
        => Pg.totalItems = AggregatorCount("pendingApprovals")
    /\ ListSucceeded /\ req.ep = "engineers" /\ req.query.verified = Undefined
        => Pg.totalItems = AggregatorCount("totalEngineers")
    /\ ListSucceeded /\ req.ep = "shops" /\ req.query.verified = Str(TrueChars)
        => Pg.totalItems = AggregatorCount("verifiedShops")
    /\ ListSucceeded /\ req.ep = "ads" /\ req.query.active = Str(TrueChars)
        => Pg.totalItems = AggregatorCount("activeAds")
    /\ Succeeded /\ req.ep = "dashboard-stats"
        => \A name \in {"pendingApprovals", "totalEngineers", "verifiedShops", "activeAds"} :
              res.data.dashboardCards[name].count = AggregatorCount(name)

C2_Witness ==
    /\ ListSucceeded /\ req.ep = "shops" /\ req.query.verified = Str(TrueChars)
    /\ Pg.totalItems >= 1
    /\ \E i \in 1..Len(db.Shop) : db.Shop[i].isVerified /\ ~db.Shop[i].isActive

\* C3: in every successful list response totalPages is the ceiling of
\* totalItems / itemsPerPage, and it is 0 exactly when totalItems is 0.
C3_TotalPages ==
    ListSucceeded /\ IsInt(Pg.itemsPerPage) /\ IntOf(Pg.itemsPerPage) >= 1
        => /\ Pg.totalPages = IntNum(CeilDiv(Pg.totalItems, IntOf(Pg.itemsPerPage)))
           /\ (Pg.totalPages = IntNum(0)) = (Pg.totalItems = 0)

\* C4: for page >= 1 and limit >= 1 a list response carries exactly the
\* documents at positions (page-1)*limit+1 .. min(page*limit, totalItems) of
\* the filtered collection in the requested order; page 2 of 15 matching
\* documents with limit 10 is five documents, and totalPages is 2.
C4_PageSlice ==
    ListSucceeded /\ PlainPaging(req.query)
        => LET page == IntOf(ToNumber(PageOf(req.query)))
               limit == IntOf(ToNumber(LimitOf(req.query)))
               docs == Filter(ListCollection(req.ep), ListQuery(req.ep, req.query))
           IN  /\ IsPageOf(ListItems, docs, SortFieldOf(req.query), RequestedDir(req.query),
                           (page - 1) * limit, limit)
               /\ page = 2 /\ limit = 10 /\ Len(docs) = 15
                    => /\ Len(ListItems) = 5
                       /\ Pg.totalPages = IntNum(2)
                       /\ Pg.totalItems = 15

C4_Witness ==
    /\ ListSucceeded /\ req.ep = "pending-approvals"
    /\ req.query.page = Str(<<"2">>) /\ req.query.limit = Undefined
    /\ Pg.totalItems = 15 /\ Len(ListItems) = 5

\* C5: a list request without page, limit, sortBy and sortOrder is answered
\* as page 1 of size 10 ordered by createdAt descending: the first ten
\* matching documents at most, currentPage 1 and itemsPerPage 10.
C5_Defaults ==
    /\ ListSucceeded
    /\ req.query.page = Undefined /\ req.query.limit = Undefined
    /\ req.query.sortBy = Undefined /\ req.query.sortOrder = Undefined
    => /\ Pg.currentPage = IntNum(1)
       /\ Pg.itemsPerPage = IntNum(10)
       /\ Len(ListItems) <= 10
       /\ IsPageOf(ListItems, Filter(ListCollection(req.ep), ListQuery(req.ep, req.query)),
                   "createdAt", -1, 0, 10)

C5_Witness ==
    /\ ListSucceeded /\ req.ep = "engineers"
    /\ req.query.page = Undefined /\ req.query.limit = Undefined
    /\ req.query.sortBy = Undefined /\ req.query.sortOrder = Undefined
    /\ Len(ListItems) = 10 /\ Pg.totalItems > 10
    /\ ListItems[1].createdAt > ListItems[10].createdAt

\* the documents of docs that satisfy Test, in natural order
Where(docs, Test(_)) == SelectSeq(docs, Test)
HowMany(docs, Test(_)) == Cardinality({i \in 1..Len(docs) : Test(docs[i])})

IsVerifiedDoc(d) == d.isVerified
IsActiveDoc(d) == d.isActive
IsActiveAd(d) == d.active
IsVerifiedActive(d) == d.isVerified /\ d.isActive
AnyDoc(d) == TRUE

\* the response lists a page of the documents of docs that satisfy Test and
\* counts all of them
ListsAndCounts(docs, Test(_)) ==
    /\ Pg.totalItems = HowMany(docs, Test)
    /\ \A i \in 1..Len(ListItems) : Test(ListItems[i])
    /\ PlainPaging(req.query)
        => IsPageOf(ListItems, Where(docs, Test), SortFieldOf(req.query),
                    RequestedDir(req.query),
                    (IntOf(ToNumber(PageOf(req.query))) - 1) * IntOf(ToNumber(LimitOf(req.query))),
                    IntOf(ToNumber(LimitOf(req.query))))

\* C6: without the verified parameter /engineers lists and counts the
\* engineers whatever their isVerified; with verified=true it lists and
\* counts only the verified ones.  The same for verified on /shops (among
\* the active shops) and for active on /ads.
C6_TriState ==
    /\ ListSucceeded /\ req.ep = "engineers" /\ req.query.verified = Undefined
        => ListsAndCounts(db.Engineer, AnyDoc)
    /\ ListSucceeded /\ req.ep = "engineers" /\ req.query.verified = Str(TrueChars)
        => ListsAndCounts(db.Engineer, IsVerifiedDoc)
    /\ ListSucceeded /\ req.ep = "shops" /\ req.query.verified = Undefined
        => ListsAndCounts(db.Shop, IsActiveDoc)
    /\ ListSucceeded /\ req.ep = "shops" /\ req.query.verified = Str(TrueChars)
        => ListsAndCounts(db.Shop, IsVerifiedActive)
    /\ ListSucceeded /\ req.ep = "ads" /\ req.query.active = Undefined
        => ListsAndCounts(db.Ads, AnyDoc)
    /\ ListSucceeded /\ req.ep = "ads" /\ req.query.active = Str(TrueChars)
        => ListsAndCounts(db.Ads, IsActiveAd)

C6_Witness ==
    /\ ListSucceeded /\ req.ep = "engineers" /\ req.query.verified = Undefined
    /\ \E i, j \in 1..Len(ListItems) : ListItems[i].isVerified /\ ~ListItems[j].isVerified

UnverifiedDoc(d) == ~d.isVerified
UnverifiedActive(d) == ~d.isVerified /\ d.isActive
InactiveAd(d) == ~d.active

\* the parameter is present and is not the string "true"
PresentNotTrue(x) == x # Undefined /\ x # Str(TrueChars)

\* C7: a verified (or active) parameter that is present with any value
\* other than "true" is answered 200 and filters as false: only documents
\* whose isVerified (or active) is false are listed and counted.
C7_OtherStringsAreFalse ==
    /\ ListSucceeded /\ req.ep = "engineers" /\ PresentNotTrue(req.query.verified)
        => ListsAndCounts(db.Engineer, UnverifiedDoc)
    /\ ListSucceeded /\ req.ep = "shops" /\ PresentNotTrue(req.query.verified)
        => ListsAndCounts(db.Shop, UnverifiedActive)
    /\ ListSucceeded /\ req.ep = "ads" /\ PresentNotTrue(req.query.active)
        => ListsAndCounts(db.Ads, InactiveAd)

C7_Witness ==
    /\ ListSucceeded /\ req.ep = "engineers"
    /\ req.query.verified = Str(<<"T", "R", "U", "E">>)
    /\ Len(ListItems) >= 1 /\ Pg.totalItems < Len(db.Engineer)

\* the controller of /dashboard-stats has awaited at least k queries
StatsAfter(k) == req.ep = "dashboard-stats" /\ req.stage = "controller" /\ req.pc >= k
StatsSucceeded == Succeeded /\ req.ep = "dashboard-stats"

\* C8: with no product, /dashboard-stats is answered 200 unless a query
\* fails, both rates are 0, and nothing in the payload is the result of a
\* division by zero: byCategory and popularCategories are empty.
C8_NoProducts ==
    req.ep = "dashboard-stats" /\ db.Product = <<>>
        => /\ StatsAfter(15)
                => req.loc.approvalRate = IntNum(0) /\ req.loc.rejectionRate = IntNum(0)
           /\ StatsAfter(16) => req.loc.categoryStats = <<>>
           /\ req.stage = "done" /\ res.code \notin {200, 401, 403}
                => res.code = 500 /\ res.error \in Errors
           /\ StatsSucceeded
                => /\ res.data.performance.approvalRates.overall = IntNum(0)
                   /\ DOMAIN res.data.performance.approvalRates.byCategory = {}
                   /\ res.data.performance.popularCategories = <<>>
                   /\ res.data.regional.byGovernorate = <<>>

C8_Witness == StatsSucceeded /\ db.Product = <<>>

\* a rate in tenths of a percent
Tenths(x) == (10 * x.n) \div x.d

\* the rejection rate of a category row, rounded as the approval rates are
RowRejectionRate(row) ==
    ToFixed1(JsMul(JsDiv(IntNum(row.rejected), IntNum(Max(row.count, 1))), IntNum(100)))

OverallSum == Tenths(req.loc.approvalRate) + Tenths(req.loc.rejectionRate)
RowSum(row) == Tenths(ToFixed1(row.approvalRate)) + Tenths(RowRejectionRate(row))

\* C9 as claimed: approvalRate + rejectionRate <= 100, overall and for every
\* category row, with equality only when no product of the group is pending.
C9_SumAtMost100 ==
    /\ StatsAfter(15)
        => /\ OverallSum <= 1000
           /\ OverallSum = 1000 => req.loc.pendingApprovals = 0
    /\ StatsAfter(16)
        => \A i \in 1..Len(req.loc.categoryStats) :
            LET row == req.loc.categoryStats[i]
            IN  /\ RowSum(row) <= 1000
                /\ RowSum(row) = 1000 => row.pending = 0

\* C9 amended: approvalRate + rejectionRate <= 100.1, overall and for every
\* category row, and the sum reaches 100 only when no product of the group
\* is pending (groups of fewer than 1000 products).
C9_SumAtMost100AndATenth ==
    /\ StatsAfter(15)
        => /\ OverallSum <= 1001
           /\ OverallSum >= 1000 => req.loc.pendingApprovals = 0
    /\ StatsAfter(16)
        => \A i \in 1..Len(req.loc.categoryStats) :
            LET row == req.loc.categoryStats[i]
            IN  /\ RowSum(row) <= 1001
                /\ RowSum(row) >= 1000 => row.pending = 0

C9_Witness == StatsAfter(15) /\ OverallSum = 1001

Abs(i) == IF i < 0 THEN -i ELSE i

\* C10: the category breakdown has one row per distinct product type, each
\* with the number of products of the type, of each status among them, and
\* the approval rate approved / max(count, 1) * 100, which the response
\* rounds to the nearest tenth; rows come by count descending.  Products
\* {pending Panel, approved Panel, rejected Battery} give Panel 2/1/1/0 at
\* 50.0, then Battery 1/0/0/1 at 0.0.
C10_CategoryBreakdown ==
    LET P == db.Product
        types == {P[i].type : i \in 1..Len(P)}
        Of(t, st) == Cardinality({j \in 1..Len(P) : P[j].type = t /\ P[j].status = st})
        All(t) == Cardinality({j \in 1..Len(P) : P[j].type = t})
        example ==
            /\ Len(P) = 3
            /\ P[1].status = "pending" /\ P[1].type = "Panel"
            /\ P[2].status = "approved" /\ P[2].type = "Panel"
            /\ P[3].status = "rejected" /\ P[3].type = "Battery"
    IN  /\ StatsAfter(16)
            => LET rows == req.loc.categoryStats
               IN  /\ Len(rows) = Cardinality(types)
                   /\ {rows[i].category : i \in 1..Len(rows)} = types
                   /\ \A i \in 1..Len(rows) :
                        /\ rows[i].count = All(rows[i].category)
                        /\ rows[i].pending = Of(rows[i].category, "pending")
                        /\ rows[i].approved = Of(rows[i].category, "approved")
                        /\ rows[i].rejected = Of(rows[i].category, "rejected")
                        /\ NumEq(rows[i].approvalRate,
                                 Num(100 * rows[i].approved, Max(rows[i].count, 1)))
                   /\ \A i, j \in 1..Len(rows) : i < j => rows[i].count >= rows[j].count
                   /\ example
                        => /\ rows[1].category = "Panel" /\ rows[1].count = 2
                           /\ rows[1].pending = 1 /\ rows[1].approved = 1
                           /\ rows[1].rejected = 0
                           /\ rows[2].category = "Battery" /\ rows[2].count = 1
                           /\ rows[2].pending = 0 /\ rows[2].approved = 0
                           /\ rows[2].rejected = 1
        /\ StatsSucceeded
            => LET rates == res.data.performance.approvalRates.byCategory
               IN  /\ DOMAIN rates = types
                   /\ \A t \in types :
                        /\ rates[t].d = 10
                        /\ 2 * Abs(rates[t].n * All(t) - 1000 * Of(t, "approved")) <= All(t)
                   /\ example => rates["Panel"] = Num(500, 10) /\ rates["Battery"] = Num(0, 10)

C10_Witness ==
    /\ StatsSucceeded
    /\ Len(db.Product) = 3
    /\ db.Product[1].status = "pending" /\ db.Product[2].status = "approved"
    /\ db.Product[3].status = "rejected"
    /\ res.data.performance.approvalRates.byCategory["Panel"] = Num(500, 10)
    /\ res.data.performance.popularCategories[1].category = "Panel"

\* C11: regional.byGovernorate has at most 10 entries, one for each of the
\* governorates with the most products (all of them when there are no more
\* than 10), each with the governorate's number of products and of pending
\* products, in descending order of products; no governorate left out has
\* more products than one that is listed.
C11_RegionalBreakdown ==
    StatsSucceeded
        => LET P == db.Product
               rows == res.data.regional.byGovernorate
               govs == {P[j].governorate : j \in 1..Len(P)}
               listed == {rows[i].governorate : i \in 1..Len(rows)}
               N(g) == Cardinality({j \in 1..Len(P) : P[j].governorate = g})
           IN  /\ Len(rows) <= 10
               /\ Len(rows) = Min(10, Cardinality(govs))
               /\ listed \subseteq govs
               /\ \A i, j \in 1..Len(rows) : i # j => rows[i].governorate # rows[j].governorate
               /\ \A i \in 1..Len(rows) :
                    /\ rows[i].products = N(rows[i].governorate)
                    /\ rows[i].pending =
                         Cardinality({j \in 1..Len(P) : /\ P[j].governorate = rows[i].governorate
                                                        /\ P[j].status = "pending"})
               /\ \A i, j \in 1..Len(rows) : i < j => rows[i].products >= rows[j].products
               /\ \A g \in govs \ listed : \A h \in listed : N(g) <= N(h)

C11_Witness ==
    /\ StatsSucceeded
    /\ Cardinality({db.Product[j].governorate : j \in 1..Len(db.Product)}) = 12
    /\ Len(res.data.regional.byGovernorate) = 10
    /\ res.data.regional.byGovernorate[1].governorate = "Abyan"
    /\ res.data.regional.byGovernorate[1].products > res.data.regional.byGovernorate[10].products

\* the fixed message of each handler's catch block
ErrorMessageOf(ep) ==
    CASE ep = "dashboard-stats" -> "Error retrieving statistics"
      [] ep = "dashboard-cards" -> "Error retrieving dashboard cards data"
      [] ep = "pending-approvals" -> "Error retrieving pending approvals"
      [] ep = "engineers" -> "Error retrieving engineers list"
      [] ep = "shops" -> "Error retrieving shops list"
      [] ep = "ads" -> "Error retrieving ads list"
      [] ep = "counts" -> "Error retrieving dashboard counts"
      [] OTHER -> "Error retrieving counts"

\* a query of the controller fails in this step: the request ends without
\* the query being counted among the completed ones
QueryFails == req.stage = "controller" /\ req'.stage = "done" /\ req'.pc = req.pc

C13_NoRetryNoPartial ==
    [][/\ QueryFails
            => /\ "data" \notin DOMAIN res'
               /\ res' \in {ErrorResponse(ErrorMessageOf(req.ep), e) : e \in Errors}
       /\ req.stage = "done" => req' = Idle /\ res' = NoResponse
       /\ res # NoResponse => res' = NoResponse
       /\ res' # res /\ res' # NoResponse => req'.stage = "done" /\ res'.code \in {200, 401, 403, 500}
      ]_vars

C13_Witness ==
    /\ req.stage = "done" /\ req.ep = "engineers" /\ req.pc = 1
    /\ res.code = 500 /\ Len(db.Engineer) >= 2

\* C14: on the six admin routes a request reaches authToken first, isAdmin
\* only from authToken and the controller only from isAdmin; queries are
\* completed by the controller only; a request ended by a middleware is
\* answered 401 or 403, with no query completed and no data.
C14_MiddlewaresFirst ==
    [][/\ req'.stage = "controller" /\ req.stage # "controller" /\ req'.ep \in AdminEndpoints
            => req.stage = "isAdmin"
       /\ req'.stage = "isAdmin" /\ req.stage # "isAdmin"
            => req.stage = "authToken" /\ req.pc = 0
       /\ req'.stage = "authToken" /\ req.stage # "authToken" => req.stage = "idle"
       /\ req'.pc > req.pc => req.stage = "controller"
       /\ req.stage \in {"authToken", "isAdmin"} /\ req'.stage = "done"
            => /\ res'.code = (IF req.stage = "authToken" THEN 401 ELSE 403)
               /\ req'.pc = 0
               /\ "data" \notin DOMAIN res'
       /\ res'.code \in {401, 403} /\ res' # res => req.stage \in {"authToken", "isAdmin"}
      ]_vars

C14_Witness == req.stage = "done" /\ req.ep = "shops" /\ res.code = 403 /\ Len(db.Shop) >= 1

HeadlineNames == {"pendingApprovals", "totalEngineers", "verifiedShops", "activeAds"}

\* C15: the requests that reach a controller without passing a middleware
\* are exactly those for /counts and /simple-counts; the data of their
\* successful responses has the four headline keys and no other, each one a
\* card of count, title, subtitle, icon and color on /counts and a bare
\* natural number on /simple-counts.
C15_PublicCountsOnly ==
    [][/\ req.stage = "idle" /\ req'.stage # "idle"
            => (req'.stage = "controller") = (req'.ep \in {"counts", "simple-counts"})
       /\ req'.ep \in {"counts", "simple-counts"}
            => /\ req'.stage \in {"controller", "done"}
               /\ res'.code \in {0, 200, 500}
       /\ req'.stage = "done" /\ res'.code = 200 /\ req'.ep = "counts"
            => /\ DOMAIN res'.data = HeadlineNames
               /\ \A k \in HeadlineNames :
                    /\ DOMAIN res'.data[k] = {"count", "title", "subtitle", "icon", "color"}
                    /\ res'.data[k].count \in Nat
       /\ req'.stage = "done" /\ res'.code = 200 /\ req'.ep = "simple-counts"
            => /\ DOMAIN res'.data = HeadlineNames
               /\ \A k \in HeadlineNames : res'.data[k] \in Nat
      ]_vars

C15_Witness ==
    /\ Succeeded /\ req.ep = "simple-counts"
    /\ res.data.totalEngineers = 3 /\ Len(db.User) = 3

\* the headline figure counted on the database directly
HeadlineOf(name) ==
    CASE name = "pendingApprovals" ->
            Cardinality({i \in 1..Len(db.Product) : db.Product[i].status = "pending"})
      [] name = "totalEngineers" -> Len(db.Engineer)
      [] name = "verifiedShops" ->
            Cardinality({i \in 1..Len(db.Shop) : db.Shop[i].isVerified /\ db.Shop[i].isActive})
      [] OTHER -> Cardinality({i \in 1..Len(db.Ads) : db.Ads[i].active})

\* C16: on one database the four headline integers are the same on
\* /counts, /simple-counts, /dashboard-cards and in the dashboardCards
\* section of /dashboard-stats: each is the number of pending products, of
\* engineers, of verified active shops and of active ads.
C16_SameHeadlines ==
    /\ Succeeded /\ req.ep \in {"counts", "dashboard-cards"}
        => \A k \in HeadlineNames : res.data[k].count = HeadlineOf(k)
    /\ Succeeded /\ req.ep = "simple-counts"
        => \A k \in HeadlineNames : res.data[k] = HeadlineOf(k)
    /\ Succeeded /\ req.ep = "dashboard-stats"
        => \A k \in HeadlineNames : res.data.dashboardCards[k].count = HeadlineOf(k)

C16_Witness ==
    /\ Succeeded /\ req.ep = "counts"
    /\ res.data.verifiedShops.count = 1
    /\ \E i \in 1..Len(db.Shop) : db.Shop[i].isVerified /\ ~db.Shop[i].isActive

\* C17: a list request sent a second time with the same page, limit,
\* filter, sortBy and sortOrder, the collection not written in between, is
\* answered with the same documents in the same order as the first time.
C17_StablePages == ListSucceeded /\ "first" \in DOMAIN req => ListItems = req.first

\* the sort fields each list route documents
SortWhitelist(ep) ==
    CASE ep = "pending-approvals" -> {"createdAt", "name", "price", "type"}
      [] ep = "engineers" -> {"createdAt", "name", "experience"}
      [] ep = "shops" -> {"createdAt", "name", "rating"}
      [] OTHER -> {"createdAt", "title"}

\* C18: once the find query of a list request has run, the field it sorted
\* on is one of the fields documented for the endpoint, whatever sortBy the
\* client sent.
C18_SortWhitelist ==
    req.ep \in ListEndpoints /\ req.pc >= 1
        => SortFieldOf(req.query) \in SortWhitelist(req.ep)

\* C19: every successful list response reports an itemsPerPage that is an
\* integer from 1 to 100 and carries at most 100 documents, whatever limit
\* the client sent.
C19_LimitRange ==
    ListSucceeded
        => /\ IsInt(Pg.itemsPerPage)
           /\ IntOf(Pg.itemsPerPage) >= 1
           /\ IntOf(Pg.itemsPerPage) <= 100
           /\ Len(ListItems) <= 100

\* a populated reference: null, or the referenced document's identifier and
\* the named fields and nothing else
Reduced(ref, fields) == ref = Null \/ DOMAIN ref = fields \cup {"_id"}

\* C20: no document of a list response carries __v; engineers carry no
\* notes, shops no notes and no verificationDocuments; the userId of a
\* pending product is the user reduced to name, phone and email, the
\* addedBy of an engineer or a shop the user reduced to name (each next to
\* the identifier of the reference); for every page, limit, sort and filter.
C20_StrippedFields ==
    ListSucceeded
        => \A i \in 1..Len(ListItems) :
            LET d == ListItems[i]
            IN  /\ "__v" \notin DOMAIN d
                /\ req.ep = "pending-approvals" => Reduced(d.userId, {"name", "phone", "email"})
                /\ req.ep = "engineers"
                    => "notes" \notin DOMAIN d /\ Reduced(d.addedBy, {"name"})
                /\ req.ep = "shops"
                    => /\ "notes" \notin DOMAIN d
                       /\ "verificationDocuments" \notin DOMAIN d
                       /\ Reduced(d.addedBy, {"name"})

C20_Witness ==
    /\ ListSucceeded /\ req.ep = "shops" /\ Len(ListItems) = 2
    /\ req.query.sortBy = Str(<<"rating">>) /\ req.query.page = Str(<<"1">>)
    /\ ListItems[1].addedBy.name = "user"
    /\ \E j \in 1..Len(db.Shop) : db.Shop[j].verificationDocuments = "licence scan"

\* how many documents of a collection satisfy a condition, counted directly
Number(docs, cond) == Cardinality({i \in 1..Len(docs) : cond[i]})

\* the figure each count query of /dashboard-stats is meant to obtain, on
\* the database d
Direct(name, d) ==
    LET P == d.Product
        E == d.Engineer
        S == d.Shop
        U == d.User
    IN  CASE name = "pendingApprovals" -> Number(P, [i \in 1..Len(P) |-> P[i].status = "pending"])
          [] name = "totalEngineers" -> Len(E)
          [] name = "verifiedShops" ->
                Number(S, [i \in 1..Len(S) |-> S[i].isVerified /\ S[i].isActive])
          [] name = "activeAds" -> Number(d.Ads, [i \in 1..Len(d.Ads) |-> d.Ads[i].active])
          [] name = "totalProducts" -> Len(P)
          [] name = "approvedProducts" ->
                Number(P, [i \in 1..Len(P) |-> P[i].status = "approved"])
          [] name = "rejectedProducts" ->
                Number(P, [i \in 1..Len(P) |-> P[i].status = "rejected"])
          [] name = "totalShops" -> Len(S)
          [] name = "totalUsers" -> Len(U)
          [] name = "activeEngineers" -> Number(E, [i \in 1..Len(E) |-> E[i].isActive])
          [] name = "verifiedEngineers" -> Number(E, [i \in 1..Len(E) |-> E[i].isVerified])
          [] name = "recentRegistrations" ->
                Number(U, [i \in 1..Len(U) |-> U[i].createdAt >= Midnight])
          [] name = "recentProductSubmissions" ->
                Number(P, [i \in 1..Len(P) |-> P[i].createdAt >= Midnight])
          [] name = "recentApprovals" ->
                Number(P, [i \in 1..Len(P) |->
                                P[i].status = "approved" /\ P[i].updatedAt >= Midnight])
          [] OTHER ->
                Number(P, [i \in 1..Len(P) |->
                                P[i].status = "rejected" /\ P[i].updatedAt >= Midnight])

StatsNames ==
    <<"pendingApprovals", "totalEngineers", "verifiedShops", "activeAds", "totalProducts",
      "approvedProducts", "rejectedProducts", "totalShops", "totalUsers", "activeEngineers",
      "verifiedEngineers", "recentRegistrations", "recentProductSubmissions",
      "recentApprovals", "recentRejections">>
HeadlineOrder == <<"pendingApprovals", "totalEngineers", "verifiedShops", "activeAds">>

\* this step completes a query of the controller
QueryCompletes == req.stage = "controller" /\ req'.pc = req.pc + 1

\* the values read so far are carried over unchanged
LocalsKept == \A n \in DOMAIN req.loc : n \in DOMAIN req'.loc /\ req'.loc[n] = req.loc[n]

\* C22: every count is the number of matching documents in the database as
\* it is at the step the query runs, also when products are written between
\* the queries; a request starts with no value at all, and its response
\* carries the values its own queries read, unchanged.
C22_NoCaching ==
    [][/\ req'.stage = "controller" /\ req'.pc = 0 => req'.loc = NoLocals
       /\ QueryCompletes /\ req.ep = "simple-counts" /\ req'.pc < 4
            => /\ req'.loc[HeadlineOrder[req'.pc]] = Direct(HeadlineOrder[req'.pc], db)
               /\ LocalsKept
       /\ QueryCompletes /\ req.ep = "simple-counts" /\ req'.pc = 4
            => /\ res'.code = 200
               /\ res'.data.activeAds = Direct("activeAds", db)
               /\ \A n \in DOMAIN req.loc : res'.data[n] = req.loc[n]
       /\ QueryCompletes /\ req.ep = "dashboard-stats" /\ req'.pc <= 15
            => /\ req'.loc[StatsNames[req'.pc]] = Direct(StatsNames[req'.pc], db)
               /\ LocalsKept
       /\ QueryCompletes /\ req.ep = "dashboard-stats" /\ req'.pc = 16
            => /\ LocalsKept
               /\ \A i \in 1..Len(req'.loc.categoryStats) :
                    LET row == req'.loc.categoryStats[i]
                    IN  row.count = Number(db.Product, [j \in 1..Len(db.Product) |->
                                                            db.Product[j].type = row.category])
               /\ (req'.loc.categoryStats = <<>>) = (db.Product = <<>>)
       /\ QueryCompletes /\ req.ep = "dashboard-stats" /\ req'.pc = 17
            => LET data == res'.data
               IN  /\ res'.code = 200
                   /\ \A n \in HeadlineNames : data.dashboardCards[n].count = req.loc[n]
                   /\ data.overview.totalProducts =
                        [count |-> req.loc.totalProducts, pending |-> req.loc.pendingApprovals,
                         approved |-> req.loc.approvedProducts,
                         rejected |-> req.loc.rejectedProducts]
                   /\ data.overview.totalUsers.count = req.loc.totalUsers
                   /\ data.activity.adminActions.approvalsToday = req.loc.recentApprovals
                   /\ data.performance.approvalRates.overall = req.loc.approvalRate
                   /\ \A i \in 1..Len(data.regional.byGovernorate) :
                        LET row == data.regional.byGovernorate[i]
                        IN  row.products =
                                Number(db.Product, [j \in 1..Len(db.Product) |->
                                            db.Product[j].governorate = row.governorate])
                   /\ (data.regional.byGovernorate = <<>>) = (db.Product = <<>>)
      ]_vars

\* a response whose product figures were read on either side of a write
C22_Witness ==
    /\ StatsSucceeded
    /\ res.data.overview.totalProducts.count = 1
    /\ res.data.overview.totalProducts.approved = 2
    /\ Len(res.data.regional.byGovernorate) = 2

\* C24: in every successful /dashboard-stats response the product figures
\* add up, pending + approved + rejected = count, and the overall approval
\* rate is at most 100, also when products are written between the queries.
C24_ProductFiguresAddUp ==
    StatsSucceeded
        => LET tot == res.data.overview.totalProducts
               rate == res.data.performance.approvalRates.overall
           IN  /\ tot.pending + tot.approved + tot.rejected = tot.count
               /\ IsNum(rate) /\ rate.n <= 100 * rate.d

\* C25: every popularCategories entry of a successful /dashboard-stats
\* response has a finite percentage from 0 to 100, also when products are
\* written between the totalProducts count and the category aggregation.
C25_PercentagesInRange ==
    StatsSucceeded
        => \A i \in 1..Len(res.data.performance.popularCategories) :
            LET pct == res.data.performance.popularCategories[i].percentage
            IN  IsNum(pct) /\ pct.n >= 0 /\ pct.n <= 100 * pct.d

\* C26: a successful list response carries at most itemsPerPage documents
\* and at most totalItems documents, also when matching documents are
\* written between the find query and the count query.
C26_ItemsWithinTotals ==
    ListSucceeded
        => /\ IsInt(Pg.itemsPerPage) /\ Len(ListItems) <= IntOf(Pg.itemsPerPage)
           /\ Len(ListItems) <= Pg.totalItems

\* the locals of /dashboard-stats after its fifteen counts on the database
\* as it is
AloneCounts == [n \in {StatsNames[i] : i \in 1..Len(StatsNames)} |-> Direct(n, db)]

\* the 200 responses a request for endpoint ep with query string q can get
\* when it is the only request in progress
AloneSuccesses(ep, q) ==
    CASE ep = "simple-counts" ->
            {SuccessResponse("Counts retrieved successfully",
                             [n \in HeadlineNames |-> Direct(n, db)])}
      [] ep = "dashboard-stats" ->
            {SuccessResponse("Dashboard statistics retrieved successfully",
                             StatsData(Bind(WithRates(AloneCounts), "categoryStats",
                                            CategoryStats(db.Product, t1)),
                                       RegionalStats(db.Product, t2))) :
                t1 \in TieOrders, t2 \in TieOrders}
      [] OTHER ->
            {SuccessResponse("Engineers list retrieved successfully",
                             EngineersData([i \in 1..Len(out.docs) |-> ShapeEngineer(out.docs[i])],
                                           Pagination(q, Direct("totalEngineers", db)))) :
                out \in {o \in FindOutcomes(db.Engineer, EngineersQuery(q), q) : o.ok}}

\* every response that request can get when it is the only one in progress
AloneOutcomes(ep, q) ==
    AloneSuccesses(ep, q)
    \cup {ErrorResponse(ErrorMessageOf(ep), e) : e \in Errors}
    \cup (IF ep \in AdminEndpoints
          THEN {[code |-> 401, status |-> "error"], [code |-> 403, status |-> "error"]}
          ELSE {})

\* C23: of two requests in progress at once, their awaited queries
\* interleaved in any order and the database not written, each gets a
\* response it can get when handled alone on that database.
C23_NoInterference ==
    "parked" \in DOMAIN req
        => /\ req.stage = "done" => res \in AloneOutcomes(req.ep, req.query)
           /\ req.parked.req.stage = "done"
                => req.parked.res \in AloneOutcomes(req.parked.req.ep, req.parked.req.query)

\* two requests for different pages of the engineers, in progress at once,
\* both answered 200
C23_Witness ==
    /\ "parked" \in DOMAIN req
    /\ req.stage = "done" /\ res.code = 200
    /\ req.parked.req.stage = "done" /\ req.parked.res.code = 200
    /\ req.ep = "engineers" /\ req.parked.req.ep = "engineers"
    /\ req.query.page # req.parked.req.query.page
    /\ Len(res.data.engineers) = 1 /\ Len(req.parked.res.data.engineers) = 1
    /\ res.data.engineers # req.parked.res.data.engineers

\* C27: when the pages 1 to totalPages of a list have been read with one
\* filter, sort and limit >= 1, the database not written, the pages together
\* hold every matching document exactly once.
C27_PagesPartition ==
    /\ ListSucceeded /\ "seen" \in DOMAIN req
    /\ Pg.currentPage = Pg.totalPages
    => LET all == req.seen \o IdsOf(ListItems)
           docs == Filter(ListCollection(req.ep), ListQuery(req.ep, req.query))
       IN  /\ Len(all) = Len(docs)
           /\ \A i, j \in 1..Len(all) : i # j => all[i] # all[j]
           /\ {all[i] : i \in 1..Len(all)} = {docs[i]._id : i \in 1..Len(docs)}

\* C28: /shops lists and counts active shops only, whatever verified is,
\* omitted included; with no parameter its totalItems is the number of
\* active shops, which is at most (and can be less than) the number of all
\* shops that overview.totalShops.count of /dashboard-stats reports.
C28_ActiveShopsOnly ==
    LET S == db.Shop
        active == Number(S, [i \in 1..Len(S) |-> S[i].isActive])
    IN  /\ ListSucceeded /\ req.ep = "shops"
            => /\ \A i \in 1..Len(ListItems) : ListItems[i].isActive
               /\ Pg.totalItems <= active
               /\ req.query.verified = Undefined => Pg.totalItems = active
               /\ req.query.verified # Undefined
                    => Pg.totalItems =
                        Number(S, [i \in 1..Len(S) |->
                                    /\ S[i].isActive
                                    /\ S[i].isVerified = (req.query.verified = Str(TrueChars))])
        /\ StatsSucceeded
            => /\ res.data.overview.totalShops.count = Len(S)
               /\ active <= res.data.overview.totalShops.count

C28_Witness ==
    /\ ListSucceeded /\ req.ep = "shops" /\ req.query = NoQuery
    /\ Pg.totalItems = 2 /\ Len(ListItems) = 2
    /\ Len(db.Shop) = 3
    /\ \E i \in 1..Len(db.Shop) : ~db.Shop[i].isActive /\ db.Shop[i].isVerified

\* C30: a request for a page beyond the last one (page and limit integers
\* >= 1) that is answered 200 carries no document, the totalItems and
\* totalPages of the filtered collection, and the requested page as
\* currentPage, which then exceeds totalPages.
C30_PageBeyondLast ==
    /\ ListSucceeded /\ PlainPaging(req.query)
    /\ IsInt(Pg.totalPages)
    /\ IntOf(ToNumber(PageOf(req.query))) > IntOf(Pg.totalPages)
    => LET total == Len(Filter(ListCollection(req.ep), ListQuery(req.ep, req.query)))
           page == IntOf(ToNumber(PageOf(req.query)))
           limit == IntOf(ToNumber(LimitOf(req.query)))
       IN  /\ ListItems = <<>>
           /\ Pg.totalItems = total
           /\ Pg.totalPages = IntNum(CeilDiv(total, limit))
           /\ Pg.currentPage = IntNum(page)
           /\ IntOf(Pg.currentPage) > IntOf(Pg.totalPages)

C30_Witness ==
    /\ ListSucceeded /\ req.ep = "pending-approvals"
    /\ req.query.page = Str(<<"3">>) /\ req.query.limit = Str(<<"2">>)
    /\ Pg.totalItems = 3 /\ Pg.totalPages = IntNum(2) /\ Pg.currentPage = IntNum(3)
    /\ ListItems = <<>>

\* the rank of an activity level
ActivityRank(a) == CASE a = "high" -> 3 [] a = "medium" -> 2 [] OTHER -> 1

\* C29: regional.topRegions names the first min(5, n) entries of
\* regional.byGovernorate in their order; an entry is "high" exactly when
\* its governorate has more than 50 products, "medium" exactly when it has
\* 21 to 50, "low" exactly when it has at most 20; the levels never rise
\* along the list.
C29_TopRegions ==
    StatsSucceeded
        => LET rows == res.data.regional.byGovernorate
               top == res.data.regional.topRegions
           IN  /\ Len(top) = Min(5, Len(rows))
               /\ \A i \in 1..Len(top) :
                    /\ top[i].name = rows[i].governorate
                    /\ top[i].activity \in {"high", "medium", "low"}
                    /\ top[i].activity = "high" <=> rows[i].products > 50
                    /\ top[i].activity = "medium"
                         <=> rows[i].products >= 21 /\ rows[i].products <= 50
                    /\ top[i].activity = "low" <=> rows[i].products <= 20
               /\ \A i, j \in 1..Len(top) :
                    i < j => ActivityRank(top[i].activity) >= ActivityRank(top[j].activity)

C29_Witness ==
    /\ StatsSucceeded
    /\ Len(res.data.regional.byGovernorate) = 7
    /\ Len(res.data.regional.topRegions) = 5
    /\ res.data.regional.byGovernorate[1].products = 51
    /\ res.data.regional.byGovernorate[2].products = 50
    /\ res.data.regional.byGovernorate[3].products = 20
    /\ res.data.regional.topRegions[1].activity = "high"
    /\ res.data.regional.topRegions[2].activity = "medium"
    /\ res.data.regional.topRegions[3].activity = "low"
====
